---- MODULE Spec2Model ----
(***************************************************************************)
(* typescript-rest: the decorator metadata registry (src/lib/decorators.ts)*)
(* the request dispatch that reads it, and the configuration file read    *)
(* when the module loads (src/typescript-rest.ts).                         *)
(*                                                                         *)
(* Optional values (a field that may be undefined) are sequences of length *)
(* 0 or 1: <<>> is undefined, <<x>> is the value x. Strings the program    *)
(* takes apart (paths) are sequences of tokens.                            *)
(***************************************************************************)
EXTENDS Integers, Sequences, FiniteSets, TLC

VARIABLES
    serverClasses,   \* InternalServer.serverClasses: class name -> ServiceClass
    thrown,          \* what the last decorator call threw (<<>>: nothing)
    declared,        \* what the program text declares (decorator inputs), kept beside the registry
    phase,           \* "loading" (decorators run), "serving" (routes built), or a pure-function phase
    request,         \* the request being served, <<>> when idle
    response,        \* the response to it, <<>> when idle
    call,            \* a handler call whose result is being sent: the handler, its result, its stage
    sent,            \* the responses written for that call, in order
    load             \* the loading of the module typescript-rest: the file system it
                     \* searches, its position in the search, what it configured

vars == <<serverClasses, thrown, declared, phase, request, response, call, sent, load>>

----------------------------------------------------------------------------
(* Values *)

undefined == <<>>
Some(x) == <<x>>
IsSome(o) == o # <<>>
Val(o) == o[1]

Range(seq) == { seq[i] : i \in 1..Len(seq) }

\* "TestContext" holds the method testContext of TestParams, as its m1
ClassSeq == <<"Service", "TestParams", "TestContext", "BaseApi", "SuperClassService">>
Classes == Range(ClassSeq)
Methods == {"m1", "m2"}
Properties == {"context"}

\* enum HttpMethod { GET, POST, PUT, DELETE, HEAD, OPTIONS, PATCH }: a
\* TypeScript enum without initialisers numbers its members from 0.
HttpMethod_GET == 0
HttpMethod_POST == 1
HttpMethod_PUT == 2
HttpMethod_DELETE == 3
HttpMethod_HEAD == 4
HttpMethod_OPTIONS == 5
HttpMethod_PATCH == 6
HttpMethod ==
    {HttpMethod_GET, HttpMethod_POST, HttpMethod_PUT, HttpMethod_DELETE,
     HttpMethod_HEAD, HttpMethod_OPTIONS, HttpMethod_PATCH}

\* HttpMethod[v]: the reverse mapping of the enum, the verb's name
HttpMethodName(v) == <<"GET", "POST", "PUT", "DELETE", "HEAD", "OPTIONS", "PATCH">>[v + 1]

\* JavaScript truthiness of an optional number: undefined and 0 are falsy
Truthy(o) == IsSome(o) /\ Val(o) # 0

\* new metadata.ServiceMethod()
NewServiceMethod ==
    [ exists           |-> FALSE,
      name             |-> undefined,
      path             |-> undefined,
      httpMethod       |-> undefined,
      languages        |-> undefined,
      accepts          |-> undefined,
      returnType       |-> undefined,
      parameters       |-> <<>>,
      mustParseCookies |-> FALSE,
      mustParseForms   |-> FALSE,
      mustParseBody    |-> FALSE,
      files            |-> <<>> ]

\* new metadata.ServiceClass(target)
NewServiceClass ==
    [ exists    |-> FALSE,
      path      |-> undefined,
      languages |-> undefined,
      accepts   |-> undefined,
      isAbstract |-> FALSE,
      properties |-> [key \in Properties |-> undefined],
      methods   |-> [k \in Methods |-> NewServiceMethod],
      order     |-> <<>> ]    \* insertion order of the methods map

\* new metadata.MethodParam(name, type, paramType)
MethodParam(name, type, paramType) ==
    [name |-> name, type |-> type, paramType |-> paramType]

\* new metadata.FileParam(name, singleFile)
FileParam(name, singleFile) == [name |-> name, singleFile |-> singleFile]

\* JavaScript values a handler can receive: undefined, a number (NaN
\* included), a string (its characters), a boolean
JsUndefined == [t |-> "undefined", nan |-> FALSE, n |-> 0, s |-> <<>>, b |-> FALSE]
JsNumber(n) == [t |-> "number", nan |-> FALSE, n |-> n, s |-> <<>>, b |-> FALSE]
JsNaN == [t |-> "number", nan |-> TRUE, n |-> 0, s |-> <<>>, b |-> FALSE]
JsString(s) == [t |-> "string", nan |-> FALSE, n |-> 0, s |-> s, b |-> FALSE]
JsBoolean(b) == [t |-> "boolean", nan |-> FALSE, n |-> 0, s |-> <<>>, b |-> b]
\* an object of the request: "request", "response", "next", "context"
JsObject(name) == [t |-> "object", nan |-> FALSE, n |-> 0, s |-> <<name>>, b |-> FALSE]

\* Reflect.getMetadata("design:paramtypes", target, propertyKey): the
\* declared parameter types of the method, as the compiler emits them
DesignParamTypes(c, k) ==
    IF c = "TestParams" THEN <<"Number", "String", "Boolean">>
    ELSE IF c = "TestContext" THEN <<"String", "Object", "Object", "Function">>
    ELSE IF c \in {"BaseApi", "SuperClassService"} THEN <<"String">>
    ELSE IF k = "m1" THEN <<>> ELSE <<"Person">>

\* class SuperClassService extends BaseApi: the superclass of c, if any
Superclass(c) == IF c = "SuperClassService" THEN Some("BaseApi") ELSE undefined

\* Reflect.getMetadata("design:returntype", target, propertyKey)
DesignReturnType(c, k) == "String"

----------------------------------------------------------------------------
(* InternalServer registry (server-container) *)

\* InternalServer.registerServiceClass(target): get or create, keyed by the
\* class name whether target is the constructor or the prototype
registerServiceClass(reg, c) ==
    IF reg[c].exists THEN reg
    ELSE [reg EXCEPT ![c].exists = TRUE]

\* InternalServer.registerServiceMethod(target, methodName): get or create;
\* no method (null) when methodName is undefined (a constructor parameter)
registerServiceMethod(reg, c, k) ==
    LET r1 == registerServiceClass(reg, c) IN
    IF k \notin Methods THEN reg
    ELSE IF r1[c].methods[k].exists THEN r1
    ELSE [r1 EXCEPT ![c].methods[k].exists = TRUE,
                    ![c].order = Append(@, k)]

\* Abstract(target): the class is registered as abstract
Abstract(reg, c) == [registerServiceClass(reg, c) EXCEPT ![c].isAbstract = TRUE]

----------------------------------------------------------------------------
(* src/lib/decorators.ts *)

NoError == <<>>

\* the callback letting a body parameter follow form parameters
scanParameter_bodyAfterForm(acc, param) ==
    LET m == acc.m IN
    IF param.paramType = "cookie" THEN
        [acc EXCEPT !.m.mustParseCookies = TRUE]
    ELSE IF param.paramType = "file" THEN
        [acc EXCEPT !.m.files = Append(@, FileParam(param.name, TRUE))]
    ELSE IF param.paramType = "files" THEN
        [acc EXCEPT !.m.files = Append(@, FileParam(param.name, FALSE))]
    ELSE IF param.paramType = "form" THEN
        IF m.mustParseBody
        THEN [acc EXCEPT !.err = <<"Can not use form parameters with a body parameter on the same method.">>]
        ELSE [acc EXCEPT !.m.mustParseForms = TRUE]
    ELSE IF param.paramType = "body" THEN
        IF m.mustParseBody
        THEN [acc EXCEPT !.err = <<"Can not use more than one body parameter on the same method.">>]
        ELSE [acc EXCEPT !.m.mustParseBody = TRUE]
    ELSE acc

\* the callback letting a second body parameter pass
scanParameter_manyBodies(acc, param) ==
    LET m == acc.m IN
    IF param.paramType = "cookie" THEN
        [acc EXCEPT !.m.mustParseCookies = TRUE]
    ELSE IF param.paramType = "file" THEN
        [acc EXCEPT !.m.files = Append(@, FileParam(param.name, TRUE))]
    ELSE IF param.paramType = "files" THEN
        [acc EXCEPT !.m.files = Append(@, FileParam(param.name, FALSE))]
    ELSE IF param.paramType = "form" THEN
        IF m.mustParseBody
        THEN [acc EXCEPT !.err = <<"Can not use form parameters with a body parameter on the same method.">>]
        ELSE [acc EXCEPT !.m.mustParseForms = TRUE]
    ELSE IF param.paramType = "body" THEN
        IF m.mustParseForms
        THEN [acc EXCEPT !.err = <<"Can not use form parameters with a body parameter on the same method.">>]
        ELSE [acc EXCEPT !.m.mustParseBody = TRUE]
    ELSE acc

\* forEach callback of processServiceMethod, one parameter; acc is
\* [m |-> serviceMethod, err |-> thrown]
scanParameter(acc, param) ==
    LET m == acc.m IN
    IF param.paramType = "cookie" THEN
        [acc EXCEPT !.m.mustParseCookies = TRUE]
    ELSE IF param.paramType = "file" THEN
        [acc EXCEPT !.m.files = Append(@, FileParam(param.name, TRUE))]
    ELSE IF param.paramType = "files" THEN
        [acc EXCEPT !.m.files = Append(@, FileParam(param.name, FALSE))]
    ELSE IF param.paramType = "form" THEN
        IF m.mustParseBody
        THEN [acc EXCEPT !.err = <<"Can not use form parameters with a body parameter on the same method.">>]
        ELSE [acc EXCEPT !.m.mustParseForms = TRUE]
    ELSE IF param.paramType = "body" THEN
        IF m.mustParseForms
        THEN [acc EXCEPT !.err = <<"Can not use form parameters with a body parameter on the same method.">>]
        ELSE IF m.mustParseBody
        THEN [acc EXCEPT !.err = <<"Can not use more than one body parameter on the same method.">>]
        ELSE [acc EXCEPT !.m.mustParseBody = TRUE]
    ELSE acc

\* serviceMethod.parameters.forEach(...): stops at the first throw
RECURSIVE scanParameters(_, _, _)
scanParameters(params, i, acc) ==
    IF i > Len(params) \/ acc.err # NoError THEN acc
    ELSE scanParameters(params, i + 1, scanParameter(acc, params[i]))

\* the filling giving every body parameter the type of the first parameter
RECURSIVE fillParameters_firstType(_, _)
fillParameters_firstType(parameters, paramTypes) ==
    IF Len(paramTypes) > Len(parameters)
    THEN fillParameters_firstType(
            Append(parameters, MethodParam(undefined, paramTypes[1], "body")),
            paramTypes)
    ELSE parameters

\* while (paramTypes.length > parameters.length) parameters.push(body param)
RECURSIVE fillParameters(_, _)
fillParameters(parameters, paramTypes) ==
    IF Len(paramTypes) > Len(parameters)
    THEN fillParameters(
            Append(parameters,
                   MethodParam(undefined, paramTypes[Len(parameters) + 1], "body")),
            paramTypes)
    ELSE parameters

\* processServiceMethod(target, propertyKey, serviceMethod)
processServiceMethod(c, k, serviceMethod) ==
    LET m1 == [serviceMethod EXCEPT
                 !.name = Some(k),
                 !.returnType = Some(DesignReturnType(c, k)),
                 !.parameters = fillParameters(@, DesignParamTypes(c, k))]
    IN scanParameters(m1.parameters, 1, [m |-> m1, err |-> NoError])

\* the verb decorator starting from a method without path
processHttpVerb_newPath(reg, c, k, httpMethod) ==
    LET r1 == registerServiceMethod(reg, c, k)
        serviceMethod == r1[c].methods[k]
    IN  IF k \notin Methods THEN [reg |-> r1, err |-> NoError]
        ELSE LET p == processServiceMethod(c, k,
                        [serviceMethod EXCEPT !.httpMethod = Some(httpMethod),
                                              !.path = undefined])
             IN [reg |-> [r1 EXCEPT ![c].methods[k] = p.m], err |-> p.err]

\* processHttpVerb(target, propertyKey, httpMethod); gives [reg, err]
processHttpVerb(reg, c, k, httpMethod) ==
    LET r1 == registerServiceMethod(reg, c, k)
        serviceMethod == r1[c].methods[k]
    IN  IF k \notin Methods THEN [reg |-> r1, err |-> NoError]
        ELSE IF Truthy(serviceMethod.httpMethod) THEN
            [reg |-> r1,
             err |-> <<"Method is already annotated with @",
                       ToString(Val(serviceMethod.httpMethod)),
                       ". You can only map a method to one HTTP verb.">>]
        ELSE LET p == processServiceMethod(c, k,
                        [serviceMethod EXCEPT !.httpMethod = Some(httpMethod)])
             IN [reg |-> [r1 EXCEPT ![c].methods[k] = p.m], err |-> p.err]

\* the class decorator storing its list in the wrong field
AcceptLanguageTypeDecorator_asAccepts(reg, c, languages) ==
    [registerServiceClass(reg, c) EXCEPT ![c].accepts = Some(languages)]

\* AcceptLanguageTypeDecorator(target, languages)
AcceptLanguageTypeDecorator(reg, c, languages) ==
    [registerServiceClass(reg, c) EXCEPT ![c].languages = Some(languages)]

\* the method decorator storing its list on the class
AcceptLanguageMethodDecorator_onClass(reg, c, k, languages) ==
    [registerServiceMethod(reg, c, k) EXCEPT ![c].languages = Some(languages)]

\* AcceptLanguageMethodDecorator(target, propertyKey, descriptor, languages)
AcceptLanguageMethodDecorator(reg, c, k, languages) ==
    LET r1 == registerServiceMethod(reg, c, k) IN
    IF k \in Methods THEN [r1 EXCEPT ![c].methods[k].languages = Some(languages)]
    ELSE r1

\* the class decorator registering the class without storing its list
AcceptTypeDecorator_noStore(reg, c, accepts) == registerServiceClass(reg, c)

\* AcceptTypeDecorator(target, accepts)
AcceptTypeDecorator(reg, c, accepts) ==
    [registerServiceClass(reg, c) EXCEPT ![c].accepts = Some(accepts)]

\* the method decorator storing its list in the wrong field
AcceptMethodDecorator_asLanguages(reg, c, k, accepts) ==
    [registerServiceMethod(reg, c, k) EXCEPT ![c].methods[k].languages = Some(accepts)]

\* AcceptMethodDecorator(target, propertyKey, descriptor, accepts)
AcceptMethodDecorator(reg, c, k, accepts) ==
    LET r1 == registerServiceMethod(reg, c, k) IN
    IF k \in Methods THEN [r1 EXCEPT ![c].methods[k].accepts = Some(accepts)]
    ELSE r1

\* the class decorator registering the class without storing its path
PathTypeDecorator_noStore(reg, c, path) == registerServiceClass(reg, c)

\* PathTypeDecorator(target, path)
PathTypeDecorator(reg, c, path) ==
    [registerServiceClass(reg, c) EXCEPT ![c].path = Some(path)]

\* the method decorator storing its path on the class
PathMethodDecorator_onClass(reg, c, k, path) ==
    [registerServiceMethod(reg, c, k) EXCEPT ![c].path = Some(path)]

\* PathMethodDecorator(target, propertyKey, descriptor, path)
PathMethodDecorator(reg, c, k, path) ==
    LET r1 == registerServiceMethod(reg, c, k) IN
    IF k \in Methods THEN [r1 EXCEPT ![c].methods[k].path = Some(path)]
    ELSE r1

\* Decorator arguments: a class decorator gets <<constructor>>, a method
\* decorator <<prototype, propertyKey, descriptor>>; t is typeof the value, v
\* the name it stands for, n its value when it is a number
ClassArgs(c) == << [t |-> "function", v |-> c, n |-> 0] >>
MethodArgs(c, k) ==
    << [t |-> "object", v |-> c, n |-> 0], [t |-> "string", v |-> k, n |-> 0],
       [t |-> "object", v |-> "descriptor", n |-> 0] >>

\* the decorator taking any three arguments for a method declaration
Path_anyThree(reg, args, path) ==
    IF Len(args) = 1 THEN
        [reg |-> PathTypeDecorator(reg, args[1].v, path), err |-> NoError]
    ELSE IF Len(args) = 3 THEN
        [reg |-> PathMethodDecorator(reg, args[1].v, args[2].v, path), err |-> NoError]
    ELSE [reg |-> reg, err |-> <<"Invalid @Path Decorator declaration.">>]

\* Path(path)(...args); gives [reg, err]
Path(reg, args, path) ==
    IF Len(args) = 1 THEN
        [reg |-> PathTypeDecorator(reg, args[1].v, path), err |-> NoError]
    ELSE IF Len(args) = 3 /\ args[3].t = "object" THEN
        [reg |-> PathMethodDecorator(reg, args[1].v, args[2].v, path), err |-> NoError]
    ELSE [reg |-> reg, err |-> <<"Invalid @Path Decorator declaration.">>]

\* AcceptLanguage(...languages)(...args); gives [reg, err]
AcceptLanguage(reg, args, languages) ==
    IF Len(args) = 1 THEN
        [reg |-> AcceptLanguageTypeDecorator(reg, args[1].v, languages), err |-> NoError]
    ELSE IF Len(args) = 3 /\ args[3].t = "object" THEN
        [reg |-> AcceptLanguageMethodDecorator(reg, args[1].v, args[2].v, languages),
         err |-> NoError]
    ELSE [reg |-> reg, err |-> <<"Invalid @AcceptLanguage Decorator declaration.">>]

\* Accept(...accepts)(...args); gives [reg, err]
Accept(reg, args, accepts) ==
    IF Len(args) = 1 THEN
        [reg |-> AcceptTypeDecorator(reg, args[1].v, accepts), err |-> NoError]
    ELSE IF Len(args) = 3 /\ args[3].t = "object" THEN
        [reg |-> AcceptMethodDecorator(reg, args[1].v, args[2].v, accepts), err |-> NoError]
    ELSE [reg |-> reg, err |-> <<"Invalid @Accept Decorator declaration.">>]

\* the parameter registered with the type of the first parameter
processDecoratedParameter_firstType(reg, c, k, parameterIndex, paramType, name) ==
    LET r1 == registerServiceMethod(reg, c, k)
        paramTypes == DesignParamTypes(c, k)
    IN  IF k \notin Methods THEN r1
        ELSE [r1 EXCEPT ![c].methods[k].parameters =
                [fillParameters(@, paramTypes) EXCEPT
                    ![parameterIndex + 1] = MethodParam(name, paramTypes[1], paramType)]]

\* processDecoratedParameter(target, propertyKey, parameterIndex, paramType, name);
\* parameterIndex counts from 0
processDecoratedParameter(reg, c, k, parameterIndex, paramType, name) ==
    LET r1 == registerServiceMethod(reg, c, k)
        paramTypes == DesignParamTypes(c, k)
    IN  IF k \notin Methods THEN r1
        ELSE [r1 EXCEPT ![c].methods[k].parameters =
                [fillParameters(@, paramTypes) EXCEPT
                    ![parameterIndex + 1] =
                        MethodParam(name, paramTypes[parameterIndex + 1], paramType)]]

\* processDecoratedProperty(target, key, paramType): classData.addProperty
processDecoratedProperty(reg, c, key, paramType) ==
    LET r1 == registerServiceClass(reg, c) IN
    IF key \in Properties THEN [r1 EXCEPT ![c].properties[key] = Some(paramType)]
    ELSE r1

\* a property decorator gets <<prototype, key>>, a parameter decorator
\* <<prototype, propertyKey, parameterIndex>>
PropertyArgs(c, key) ==
    << [t |-> "object", v |-> c, n |-> 0], [t |-> "string", v |-> key, n |-> 0] >>
ParameterArgs(c, k, parameterIndex) ==
    << [t |-> "object", v |-> c, n |-> 0], [t |-> "string", v |-> k, n |-> 0],
       [t |-> "number", v |-> "", n |-> parameterIndex] >>

\* Context(...args); gives [reg, err]
Context(reg, args) ==
    IF Len(args) = 2 THEN
        [reg |-> processDecoratedProperty(reg, args[1].v, args[2].v, "context"),
         err |-> NoError]
    ELSE IF Len(args) = 3 /\ args[3].t = "number" THEN
        [reg |-> processDecoratedParameter(reg, args[1].v, args[2].v, args[3].n,
                                          "context", undefined),
         err |-> NoError]
    ELSE [reg |-> reg, err |-> <<"Invalid @Context Decorator declaration.">>]

\* ContextRequest(...args); gives [reg, err]
ContextRequest(reg, args) ==
    IF Len(args) = 2 THEN
        [reg |-> processDecoratedProperty(reg, args[1].v, args[2].v, "context_request"),
         err |-> NoError]
    ELSE IF Len(args) = 3 /\ args[3].t = "number" THEN
        [reg |-> processDecoratedParameter(reg, args[1].v, args[2].v, args[3].n,
                                          "context_request", undefined),
         err |-> NoError]
    ELSE [reg |-> reg, err |-> <<"Invalid @ContextRequest Decorator declaration.">>]

\* the decorator registering the request where the response is asked for
ContextResponse_asRequest(reg, args) ==
    IF Len(args) = 2 THEN
        [reg |-> processDecoratedProperty(reg, args[1].v, args[2].v, "context_request"),
         err |-> NoError]
    ELSE IF Len(args) = 3 /\ args[3].t = "number" THEN
        [reg |-> processDecoratedParameter(reg, args[1].v, args[2].v, args[3].n,
                                          "context_request", undefined),
         err |-> NoError]
    ELSE [reg |-> reg, err |-> <<"Invalid @ContextResponse Decorator declaration.">>]

\* ContextResponse(...args); gives [reg, err]
ContextResponse(reg, args) ==
    IF Len(args) = 2 THEN
        [reg |-> processDecoratedProperty(reg, args[1].v, args[2].v, "context_response"),
         err |-> NoError]
    ELSE IF Len(args) = 3 /\ args[3].t = "number" THEN
        [reg |-> processDecoratedParameter(reg, args[1].v, args[2].v, args[3].n,
                                          "context_response", undefined),
         err |-> NoError]
    ELSE [reg |-> reg, err |-> <<"Invalid @ContextResponse Decorator declaration.">>]

\* ContextNext(...args); gives [reg, err]
ContextNext(reg, args) ==
    IF Len(args) = 2 THEN
        [reg |-> processDecoratedProperty(reg, args[1].v, args[2].v, "context_next"),
         err |-> NoError]
    ELSE IF Len(args) = 3 /\ args[3].t = "number" THEN
        [reg |-> processDecoratedParameter(reg, args[1].v, args[2].v, args[3].n,
                                          "context_next", undefined),
         err |-> NoError]
    ELSE [reg |-> reg, err |-> <<"Invalid @ContextNext Decorator declaration.">>]

\* ContextLanguage(...args); gives [reg, err]
ContextLanguage(reg, args) ==
    IF Len(args) = 2 THEN
        [reg |-> processDecoratedProperty(reg, args[1].v, args[2].v,
                                         "context_accept_language"),
         err |-> NoError]
    ELSE IF Len(args) = 3 /\ args[3].t = "number" THEN
        [reg |-> processDecoratedParameter(reg, args[1].v, args[2].v, args[3].n,
                                          "context_accept_language", undefined),
         err |-> NoError]
    ELSE [reg |-> reg, err |-> <<"Invalid @ContextLanguage Decorator declaration.">>]

\* ContextAccept(...args); gives [reg, err]
ContextAccept(reg, args) ==
    IF Len(args) = 2 THEN
        [reg |-> processDecoratedProperty(reg, args[1].v, args[2].v, "context_accept"),
         err |-> NoError]
    ELSE IF Len(args) = 3 /\ args[3].t = "number" THEN
        [reg |-> processDecoratedParameter(reg, args[1].v, args[2].v, args[3].n,
                                          "context_accept", undefined),
         err |-> NoError]
    ELSE [reg |-> reg, err |-> <<"Invalid @ContextAccept Decorator declaration.">>]

ContextNames ==
    {"Context", "ContextRequest", "ContextResponse", "ContextNext", "ContextLanguage",
     "ContextAccept"}

\* the context decorator named name
ContextDecorator(name, reg, args) ==
    CASE name = "Context" -> Context(reg, args)
      [] name = "ContextRequest" -> ContextRequest(reg, args)
      [] name = "ContextResponse" -> ContextResponse(reg, args)
      [] name = "ContextNext" -> ContextNext(reg, args)
      [] name = "ContextLanguage" -> ContextLanguage(reg, args)
      [] name = "ContextAccept" -> ContextAccept(reg, args)

DualUseNames == {"Path", "Accept", "AcceptLanguage"} \cup ContextNames

\* the dual-use decorator called name, @Path, @Accept and @AcceptLanguage
\* with the arguments MyService and BaseApi give them
DualUseDecorator(name, reg, args) ==
    CASE name = "Path" -> Path(reg, args, <<"mypath">>)
      [] name = "Accept" -> Accept(reg, args, <<"application/json">>)
      [] name = "AcceptLanguage" -> AcceptLanguage(reg, args, <<"en", "pt-BR">>)
      [] OTHER -> ContextDecorator(name, reg, args)

\* what a decorator is called with on a class, a property, a method, a
\* parameter, and on a property whose descriptor argument is passed undefined
ArgShapes(c, k) ==
    { ClassArgs(c), PropertyArgs(c, "context"), MethodArgs(c, k), ParameterArgs(c, k, 0),
      << [t |-> "object", v |-> c, n |-> 0], [t |-> "string", v |-> "context", n |-> 0],
         [t |-> "undefined", v |-> "", n |-> 0] >> }

\* the metadata.ParamType a context decorator stands for
ContextParamType(name) ==
    CASE name = "Context" -> "context"
      [] name = "ContextRequest" -> "context_request"
      [] name = "ContextResponse" -> "context_response"
      [] name = "ContextNext" -> "context_next"
      [] name = "ContextLanguage" -> "context_accept_language"
      [] name = "ContextAccept" -> "context_accept"

\* the decorator registering its parameter as a header parameter
QueryParam_asHeader(reg, name, c, k, parameterIndex) ==
    processDecoratedParameter(reg, c, k, parameterIndex, "header", Some(name))

\* QueryParam(name)(target, propertyKey, parameterIndex)
QueryParam(reg, name, c, k, parameterIndex) ==
    processDecoratedParameter(reg, c, k, parameterIndex, "query", Some(name))

\* PathParam(name)(target, propertyKey, parameterIndex)
PathParam(reg, name, c, k, parameterIndex) ==
    processDecoratedParameter(reg, c, k, parameterIndex, "path", Some(name))

\* FileParam(name)(target, propertyKey, parameterIndex)
FileParamDecorator(reg, name, c, k, parameterIndex) ==
    processDecoratedParameter(reg, c, k, parameterIndex, "file", Some(name))

\* FilesParam(name)(target, propertyKey, parameterIndex)
FilesParam(reg, name, c, k, parameterIndex) ==
    processDecoratedParameter(reg, c, k, parameterIndex, "files", Some(name))

\* HeaderParam(name)(target, propertyKey, parameterIndex)
HeaderParam(reg, name, c, k, parameterIndex) ==
    processDecoratedParameter(reg, c, k, parameterIndex, "header", Some(name))

\* CookieParam(name)(target, propertyKey, parameterIndex)
CookieParam(reg, name, c, k, parameterIndex) ==
    processDecoratedParameter(reg, c, k, parameterIndex, "cookie", Some(name))

\* FormParam(name)(target, propertyKey, parameterIndex)
FormParam(reg, name, c, k, parameterIndex) ==
    processDecoratedParameter(reg, c, k, parameterIndex, "form", Some(name))

ParamDecoratorNames ==
    {"PathParam", "FileParam", "FilesParam", "QueryParam", "HeaderParam", "CookieParam",
     "FormParam"}

\* the named-parameter decorator called dec
ParamDecorator(dec, reg, name, c, k, parameterIndex) ==
    CASE dec = "PathParam" -> PathParam(reg, name, c, k, parameterIndex)
      [] dec = "FileParam" -> FileParamDecorator(reg, name, c, k, parameterIndex)
      [] dec = "FilesParam" -> FilesParam(reg, name, c, k, parameterIndex)
      [] dec = "QueryParam" -> QueryParam(reg, name, c, k, parameterIndex)
      [] dec = "HeaderParam" -> HeaderParam(reg, name, c, k, parameterIndex)
      [] dec = "CookieParam" -> CookieParam(reg, name, c, k, parameterIndex)
      [] dec = "FormParam" -> FormParam(reg, name, c, k, parameterIndex)

\* the metadata.ParamType a named-parameter decorator stands for
NamedParamType(dec) ==
    CASE dec = "PathParam" -> "path"
      [] dec = "FileParam" -> "file"
      [] dec = "FilesParam" -> "files"
      [] dec = "QueryParam" -> "query"
      [] dec = "HeaderParam" -> "header"
      [] dec = "CookieParam" -> "cookie"
      [] dec = "FormParam" -> "form"

\* GET, POST, PUT, DELETE, HEAD, OPTIONS, PATCH (target, propertyKey, descriptor)
GET(reg, c, k) == processHttpVerb(reg, c, k, HttpMethod_GET)
POST(reg, c, k) == processHttpVerb(reg, c, k, HttpMethod_POST)
PUT(reg, c, k) == processHttpVerb(reg, c, k, HttpMethod_PUT)
DELETE(reg, c, k) == processHttpVerb(reg, c, k, HttpMethod_DELETE)
HEAD(reg, c, k) == processHttpVerb(reg, c, k, HttpMethod_HEAD)
OPTIONS(reg, c, k) == processHttpVerb(reg, c, k, HttpMethod_OPTIONS)
PATCH(reg, c, k) == processHttpVerb(reg, c, k, HttpMethod_PATCH)

\* the verb decorator named v
VerbDecorator(reg, c, k, v) ==
    CASE v = "GET" -> GET(reg, c, k)
      [] v = "POST" -> POST(reg, c, k)
      [] v = "PUT" -> PUT(reg, c, k)
      [] v = "DELETE" -> DELETE(reg, c, k)
      [] v = "HEAD" -> HEAD(reg, c, k)
      [] v = "OPTIONS" -> OPTIONS(reg, c, k)
      [] v = "PATCH" -> PATCH(reg, c, k)

VerbNames == {"GET", "POST", "PUT", "DELETE", "HEAD", "OPTIONS", "PATCH"}

----------------------------------------------------------------------------
(* Request dispatch (server-container): routes, negotiation, responses *)

\* the segments of a path: the text between its '/' separators
Segs(path) == SelectSeq(path, LAMBDA t : t # "/")

OrEmpty(o) == IF IsSome(o) THEN Val(o) ELSE <<>>

\* a path made to start with '/': _.startsWith(path, '/') ? path : '/' + path
withLeadingSlash(path) ==
    IF Len(path) > 0 /\ path[1] = "/" THEN path ELSE <<"/">> \o path

\* a path without its final '/'
withoutTrailingSlash(path) ==
    IF Len(path) > 0 /\ path[Len(path)] = "/" THEN SubSeq(path, 1, Len(path) - 1)
    ELSE path

\* the text of the route of a method: the class path made to start with '/'
\* and not to end with one, then the method path made to start with '/'
resolvedPathText(classPath, methodPath) ==
    LET classText == withoutTrailingSlash(withLeadingSlash(OrEmpty(classPath)))
    IN  IF IsSome(methodPath) THEN classText \o withLeadingSlash(Val(methodPath))
        ELSE classText

\* InternalServer.resolvePath: the class path followed by the method path,
\* as the router reads the text: its segments
resolvePath(classPath, methodPath) == Segs(resolvedPathText(classPath, methodPath))

\* InternalServer.resolveLanguages: class languages, then method languages
resolveLanguages(classLanguages, methodLanguages) ==
    OrEmpty(classLanguages) \o OrEmpty(methodLanguages)

\* InternalServer.resolveAccepts: class media types, then method media types
resolveAccepts(classAccepts, methodAccepts) ==
    OrEmpty(classAccepts) \o OrEmpty(methodAccepts)

\* a route segment ':name' matches any one request segment
IsPathParam(seg) == seg \in {":id"}

\* the router's match of a request path against a route pattern
pathMatches(pattern, path) ==
    /\ Len(pattern) = Len(path)
    /\ \A i \in 1..Len(pattern) : IsPathParam(pattern[i]) \/ pattern[i] = path[i]

\* the methods of class c that carry a verb, in registration order
RECURSIVE classRoutes(_, _, _)
classRoutes(reg, c, i) ==
    IF i > Len(reg[c].order) THEN <<>>
    ELSE LET k == reg[c].order[i]
             m == reg[c].methods[k]
         IN (IF IsSome(m.httpMethod)
             THEN << [cls |-> c, key |-> k, impl |-> c,
                      httpMethod |-> Val(m.httpMethod),
                      parameters |-> m.parameters,
                      resolvedPath |-> resolvePath(reg[c].path, m.path),
                      resolvedLanguages |-> resolveLanguages(reg[c].languages, m.languages),
                      resolvedAccepts |-> resolveAccepts(reg[c].accepts, m.accepts)] >>
             ELSE <<>>) \o classRoutes(reg, c, i + 1)

\* the methods class c inherits from class super: those of super that carry
\* a verb and that c does not declare itself, served under the path,
\* languages and media types of c by the implementation of super
RECURSIVE inheritedRoutes(_, _, _, _)
inheritedRoutes(reg, c, super, i) ==
    IF i > Len(reg[super].order) THEN <<>>
    ELSE LET k == reg[super].order[i]
             m == reg[super].methods[k]
         IN (IF IsSome(m.httpMethod) /\ ~reg[c].methods[k].exists
             THEN << [cls |-> c, key |-> k, impl |-> super,
                      httpMethod |-> Val(m.httpMethod),
                      parameters |-> m.parameters,
                      resolvedPath |-> resolvePath(reg[c].path, m.path),
                      resolvedLanguages |-> resolveLanguages(reg[c].languages, m.languages),
                      resolvedAccepts |-> resolveAccepts(reg[c].accepts, m.accepts)] >>
             ELSE <<>>) \o inheritedRoutes(reg, c, super, i + 1)

\* the routes of one class: none for an abstract or unregistered class,
\* else its own methods, then those it inherits
serviceRoutes(reg, c) ==
    IF reg[c].isAbstract \/ ~reg[c].exists THEN <<>>
    ELSE classRoutes(reg, c, 1)
            \o (IF IsSome(Superclass(c))
                THEN inheritedRoutes(reg, c, Val(Superclass(c)), 1)
                ELSE <<>>)

\* InternalServer.buildServices: every service method of every class
RECURSIVE buildServices(_, _)
buildServices(reg, i) ==
    IF i > Len(ClassSeq) THEN <<>>
    ELSE serviceRoutes(reg, ClassSeq[i]) \o buildServices(reg, i + 1)

\* request.acceptsLanguages(offered) / request.accepts(offered): the first
\* entry of the header that is offered; the first offered when the request
\* has no such header; undefined (false) when nothing matches
RECURSIVE firstOffered(_, _, _)
firstOffered(header, offered, i) ==
    IF i > Len(header) THEN undefined
    ELSE IF \E j \in 1..Len(offered) : offered[j] = header[i] THEN Some(header[i])
    ELSE firstOffered(header, offered, i + 1)

acceptsOneOf(header, offered) ==
    IF ~IsSome(header) THEN Some(offered[1])
    ELSE firstOffered(Val(header), offered, 1)

\* with nothing declared, the request's first preference, '*' without header
preferred(header) ==
    IF IsSome(header) /\ Len(Val(header)) > 0 THEN Some(Val(header)[1]) ELSE Some("*")

NoResponse == <<>>

Response(status, allow, invoked, language, accept, args) ==
    [status |-> status, allow |-> allow, invoked |-> invoked,
     language |-> language, accept |-> accept, args |-> args]

Digits == <<"0", "1", "2", "3", "4", "5", "6", "7", "8", "9">>
IsDigit(ch) == \E d \in 1..10 : Digits[d] = ch
DigitValue(ch) == (CHOOSE d \in 1..10 : Digits[d] = ch) - 1

\* the value of the longest prefix of digits of str from position i on,
\* acc being the value of the digits before i
RECURSIVE leadingDigits(_, _, _)
leadingDigits(str, i, acc) ==
    IF i > Len(str) \/ ~IsDigit(str[i]) THEN acc
    ELSE leadingDigits(str, i + 1, 10 * acc + DigitValue(str[i]))

\* parseFloat(str) on unsigned integer literals: NaN unless str starts with a digit
parseFloat(str) ==
    IF Len(str) = 0 \/ ~IsDigit(str[1]) THEN JsNaN
    ELSE JsNumber(leadingDigits(str, 1, 0))

\* InternalServer.convertType(paramValue, paramType): paramValue is the
\* optional string taken from the request
convertType(paramValue, paramType) ==
    IF ~IsSome(paramValue) THEN JsUndefined
    ELSE IF paramType = "Number" THEN parseFloat(Val(paramValue))
    ELSE IF paramType = "Boolean" THEN JsBoolean(Val(paramValue) = <<"t", "r", "u", "e">>)
    ELSE JsString(Val(paramValue))

\* req.query[name]: undefined for a name the query string does not carry
queryValue(req, name) ==
    IF name \in DOMAIN req.query THEN req.query[name] ELSE undefined

\* InternalServer.processParameterValue: the value bound to one parameter
processParameter(param, req) ==
    IF param.paramType = "query"
    THEN convertType(queryValue(req, Val(param.name)), param.type)
    ELSE IF param.paramType = "header" THEN convertType(undefined, param.type)
    ELSE IF param.paramType = "context" THEN JsObject("context")
    ELSE IF param.paramType = "context_request" THEN JsObject("request")
    ELSE IF param.paramType = "context_response" THEN JsObject("response")
    ELSE IF param.paramType = "context_next" THEN JsObject("next")
    ELSE JsUndefined

\* the default value the handler declares for its (i+1)-th parameter
\* (testDefaultQuery: limit = 20, prefix = 'default', expand = true)
HandlerDefault(c, k, i) ==
    IF c = "TestParams" /\ k = "m1"
    THEN << Some(JsNumber(20)),
            Some(JsString(<<"d", "e", "f", "a", "u", "l", "t">>)),
            Some(JsBoolean(TRUE)) >>[i]
    ELSE undefined

\* the call of the handler: a parameter with a default takes it when the
\* argument is undefined
handlerArguments(c, k, bound) ==
    [i \in 1..Len(bound) |->
        IF bound[i] = JsUndefined /\ IsSome(HandlerDefault(c, k, i))
        THEN Val(HandlerDefault(c, k, i))
        ELSE bound[i]]

\* InternalServer.buildArgumentsList: one bound value per registered parameter
buildArgumentsList(parameters, req) ==
    [i \in 1..Len(parameters) |-> processParameter(parameters[i], req)]

\* InternalServer.getHttpMethods(path): the verbs of the routes on the path
getHttpMethods(routes, path) ==
    {routes[i].httpMethod : i \in {j \in 1..Len(routes) : pathMatches(routes[j].resolvedPath, path)}}

\* checkAcceptance + the call of the handler, for the route chosen
callTargetEndPoint(route, req) ==
    LET language == IF Len(route.resolvedLanguages) > 0
                    THEN acceptsOneOf(req.acceptLanguage, route.resolvedLanguages)
                    ELSE preferred(req.acceptLanguage)
        accept == IF Len(route.resolvedAccepts) > 0
                  THEN acceptsOneOf(req.accept, route.resolvedAccepts)
                  ELSE preferred(req.accept)
    IN  IF ~IsSome(accept) \/ ~IsSome(language)
        THEN Response(406, {}, undefined, undefined, undefined, <<>>)
        ELSE Response(200, {}, Some(<<route.impl, route.key>>), language, accept,
                      handlerArguments(route.cls, route.key,
                                       buildArgumentsList(route.parameters, req)))

\* the router: the first route matching verb and path handles the request;
\* a path with routes but none for the verb answers 405 with Allow; no route
\* on the path answers 404
Dispatch(reg, req) ==
    LET routes == buildServices(reg, 1)
        onPath == {i \in 1..Len(routes) : pathMatches(routes[i].resolvedPath, req.path)}
        hits == {i \in onPath : routes[i].httpMethod = req.method}
    IN  IF onPath = {} THEN Response(404, {}, undefined, undefined, undefined, <<>>)
        ELSE IF hits = {}
        THEN Response(405, {HttpMethodName(v) : v \in getHttpMethods(routes, req.path)},
                      undefined, undefined, undefined, <<>>)
        ELSE callTargetEndPoint(routes[CHOOSE i \in hits : \A j \in hits : i <= j], req)

----------------------------------------------------------------------------
(* Inputs *)

ClassPaths == { <<"a">>, <<"/", "a">> }
MethodPaths == { <<":id">>, <<"/", ":id">> }
ClassLanguages == <<"en", "pt-BR">>
MethodLanguages == <<"fr">>
ClassAccepts == <<"application/json">>
MethodAccepts == <<"text/xml">>

\* a request: verb, path segments, Accept-Language and Accept headers
\* (undefined: header absent; else the values in order of preference)
\* and query string (per name: undefined when absent, else the characters sent)
Request(method, path, acceptLanguage, accept, query) ==
    [method |-> method, path |-> path, acceptLanguage |-> acceptLanguage,
     accept |-> accept, query |-> query]

QueryNames == <<"limit", "prefix", "expand">>
NoQuery == [n \in Range(QueryNames) |-> undefined]

RequestPaths == { <<>>, <<"a">>, <<"a", "1">>, <<"b">> }

RouteRequests ==
    { Request(v, p, undefined, undefined, NoQuery) : v \in HttpMethod, p \in RequestPaths }

LanguageHeaders ==
    { undefined, Some(<<"en">>), Some(<<"pt-BR">>), Some(<<"fr">>), Some(<<"de">>),
      Some(<<"de", "pt-BR">>) }
AcceptHeaders ==
    { undefined, Some(<<"application/json">>), Some(<<"text/html">>),
      Some(<<"text/html", "text/xml">>) }

\* TestParams: @Path('default-query') testDefaultQuery, @Path('optional-query') testOptionalQuery
ParamPath(k) == IF k = "m1" THEN <<"default-query">> ELSE <<"optional-query">>

Chars_5 == <<"5">>
Chars_123 == <<"1", "2", "3">>
Chars_test == <<"t", "e", "s", "t">>
Chars_true == <<"t", "r", "u", "e">>
Chars_false == <<"f", "a", "l", "s", "e">>

\* ?limit=..&prefix=..&expand=.. with each part absent, empty or as the tests send it
Queries ==
    { [n \in Range(QueryNames) |->
          IF n = "limit" THEN l ELSE IF n = "prefix" THEN p ELSE e] :
        l \in {undefined, Some(<<>>), Some(Chars_5)},
        p \in {undefined, Some(<<>>), Some(Chars_test)},
        e \in {undefined, Some(<<>>), Some(Chars_true), Some(Chars_false)} }

ParamRequests ==
    { Request(HttpMethod_GET, ParamPath(k), undefined, undefined, q) :
        k \in Methods, q \in Queries }

AcceptRequests ==
    { Request(v, <<>>, l, a, NoQuery) :
        v \in {HttpMethod_GET, HttpMethod_PUT}, l \in LanguageHeaders, a \in AcceptHeaders }

\* MyService, PersonService: @Path('mypath'), @Path('/asubpath/person')
PersonClassPaths == { <<"mypath">>, <<"/", "asubpath", "/", "person">> }

PathRequests ==
    { Request(v, p, undefined, undefined, NoQuery) :
        v \in {HttpMethod_GET, HttpMethod_PUT},
        p \in { <<"mypath">>, <<"mypath", "123">>, <<"asubpath", "person">>,
                <<"asubpath", "person", "123">>, <<"person", "123">> } }

\* GET /context, /context?q=123, /context?q=5
ContextRequests ==
    { Request(HttpMethod_GET, <<"context">>, undefined, undefined, [n \in {"q"} |-> q]) :
        q \in {undefined, Some(Chars_123), Some(Chars_5)} }

\* BaseApi / SuperClassService: @Path(':id') testCrudGet,
\* @Path('overload/:id') testOverloadGet
InheritPath(k) == IF k = "m1" THEN <<":id">> ELSE <<"overload", "/", ":id">>

InheritRequests ==
    { Request(v, p, undefined, undefined, NoQuery) :
        v \in {HttpMethod_GET, HttpMethod_PUT},
        p \in { <<"superclass", "123">>, <<"superclass", "overload", "123">>,
                <<"123">>, <<"overload", "123">>, <<"superclass">> } }

----------------------------------------------------------------------------
(* src/typescript-rest.ts: the configuration file read when the module loads.
   A file name is the sequence of its tokens, "/" the separator and "." the
   dot among them; __dirname and process.cwd() are absolute POSIX names. *)

\* the segments of a file name: the tokens between its "/" separators
RECURSIVE path_split(_, _)
path_split(name, segment) ==
    IF name = <<>> THEN (IF segment = <<>> THEN <<>> ELSE <<segment>>)
    ELSE IF Head(name) = "/"
    THEN (IF segment = <<>> THEN <<>> ELSE <<segment>>) \o path_split(Tail(name), <<>>)
    ELSE path_split(Tail(name), Append(segment, Head(name)))

\* the absolute name made of the segments; "/" when there is none
RECURSIVE path_format(_)
path_format(segments) ==
    IF segments = <<>> THEN <<"/">>
    ELSE IF Len(segments) = 1 THEN <<"/">> \o segments[1]
    ELSE <<"/">> \o segments[1] \o path_format(Tail(segments))

\* the segments with "." dropped and ".." taking back the segment before it
\* (none to take back at the root)
RECURSIVE path_resolve(_, _)
path_resolve(segments, done) ==
    IF segments = <<>> THEN done
    ELSE IF Head(segments) = <<".">> THEN path_resolve(Tail(segments), done)
    ELSE IF Head(segments) = <<".", ".">>
    THEN path_resolve(Tail(segments),
                      IF done = <<>> THEN done ELSE SubSeq(done, 1, Len(done) - 1))
    ELSE path_resolve(Tail(segments), Append(done, Head(segments)))

\* path.normalize(name) of an absolute name: its segments, resolved, put
\* together again
path_normalize(name) ==
    CHOOSE normalized \in
        { path_format(resolved) : resolved \in
            { path_resolve(segments, <<>>) : segments \in {path_split(name, <<>>)} } } : TRUE

\* path.join(...names): the names put together with "/", normalized
path_join(names) ==
    LET joined[i \in 1..Len(names)] ==
            IF i = 1 THEN names[1] ELSE joined[i - 1] \o <<"/">> \o names[i]
    IN  path_normalize(joined[Len(names)])

\* the directory name that stays where it is
path_dirname_same(name) == name

\* path.dirname(name) of a normalized absolute name
path_dirname(name) ==
    CHOOSE dirname \in
        { IF segments = <<>> THEN <<"/">>
          ELSE path_format(SubSeq(segments, 1, Len(segments) - 1)) :
            segments \in {path_split(name, <<>>)} } : TRUE

\* JavaScript truthiness of a value
JsTruthy(v) ==
    CASE v.t = "undefined" -> FALSE
      [] v.t = "boolean" -> v.b
      [] v.t = "number" -> ~v.nan /\ v.n # 0
      [] v.t = "string" -> v.s # <<>>
      [] v.t = "object" -> TRUE

\* a rest.config without any setting
NoConfig == [useIoC |-> JsUndefined, es6 |-> JsUndefined, serviceFactory |-> JsUndefined]

\* the module is not being loaded
NotLoading ==
    [pc |-> "off",
     dirname |-> <<"/">>,       \* __dirname
     cwd |-> <<"/">>,           \* process.cwd()
     files |-> {},              \* the names fs.existsSync finds
     config |-> NoConfig,       \* what fs.readJSONSync gives for a rest.config
     configFile |-> <<>>,       \* the local of searchConfigFile
     CONFIG_FILE |-> undefined, \* its result; undefined stands for null
     useIoC |-> undefined,      \* the es6 argument Server.useIoC was called with
     serviceFactory |-> undefined ] \* the module registered as service factory

\* the call Server.useIoC(es6)
Server_useIoC(l, es6) == [l EXCEPT !.useIoC = Some(es6)]

\* the call Server.registerServiceFactory(require(name))
Server_registerServiceFactory(l, name) == [l EXCEPT !.serviceFactory = Some(name)]

\* the configuration read with the service factory tried before useIoC
configure_factoryFirst(l, config) ==
    IF JsTruthy(config.serviceFactory) THEN
        Server_registerServiceFactory(l,
            IF config.serviceFactory.s[1] = "."
            THEN path_join(<<l.cwd, config.serviceFactory.s>>)
            ELSE config.serviceFactory.s)
    ELSE IF JsTruthy(config.useIoC) THEN Server_useIoC(l, config.es6)
    ELSE l

\* if (config.useIoC) ... else if (config.serviceFactory) ...
configure(l, config) ==
    IF JsTruthy(config.useIoC) THEN Server_useIoC(l, config.es6)
    ELSE IF JsTruthy(config.serviceFactory) THEN
        Server_registerServiceFactory(l,
            IF config.serviceFactory.s[1] = "."
            THEN path_join(<<l.cwd, config.serviceFactory.s>>)
            ELSE config.serviceFactory.s)
    ELSE l

----------------------------------------------------------------------------
(* The declarations of the program text *)

NoMethodDeclared ==
    [path |-> undefined, languages |-> undefined, accepts |-> undefined,
     params |-> {},    \* the decorated parameters: [index, name, paramType]
     verbs |-> <<>>]   \* the verb decorators applied, with what each threw
                       \* and the other method decorators applied earlier

NothingDeclared ==
    [c \in Classes |->
        [path |-> undefined, languages |-> undefined, accepts |-> undefined,
         isAbstract |-> FALSE,
         methods |-> [k \in Methods |-> NoMethodDeclared]]]

----------------------------------------------------------------------------
(* Actions *)

NoCall == <<>>

Init ==
    /\ serverClasses = [c \in Classes |-> NewServiceClass]
    /\ thrown = NoError
    /\ declared = NothingDeclared
    /\ phase = "loading"
    /\ request = <<>>
    /\ response = NoResponse
    /\ call = NoCall
    /\ sent = <<>>
    /\ load = NotLoading

\* @Path(p) class c
PathOnClass(c, p) ==
    /\ phase = "loading"
    /\ LET r == Path(serverClasses, ClassArgs(c), p) IN
        /\ serverClasses' = r.reg
        /\ thrown' = r.err
    /\ declared' = [declared EXCEPT ![c].path = Some(p)]
    /\ UNCHANGED <<load, phase, request, response, call, sent>>

\* @Path(p) method k of class c
PathOnMethod(c, k, p) ==
    /\ phase = "loading"
    /\ LET r == Path(serverClasses, MethodArgs(c, k), p) IN
        /\ serverClasses' = r.reg
        /\ thrown' = r.err
    /\ declared' = [declared EXCEPT ![c].methods[k].path = Some(p)]
    /\ UNCHANGED <<load, phase, request, response, call, sent>>

\* @Abstract class c
AbstractOnClass(c) ==
    /\ phase = "loading"
    /\ serverClasses' = Abstract(serverClasses, c)
    /\ thrown' = NoError
    /\ declared' = [declared EXCEPT ![c].isAbstract = TRUE]
    /\ UNCHANGED <<load, phase, request, response, call, sent>>

\* @AcceptLanguage(...languages) class c
AcceptLanguageOnClass(c, languages) ==
    /\ phase = "loading"
    /\ LET r == AcceptLanguage(serverClasses, ClassArgs(c), languages) IN
        /\ serverClasses' = r.reg
        /\ thrown' = r.err
    /\ declared' = [declared EXCEPT ![c].languages = Some(languages)]
    /\ UNCHANGED <<load, phase, request, response, call, sent>>

\* @AcceptLanguage(...languages) method k of class c
AcceptLanguageOnMethod(c, k, languages) ==
    /\ phase = "loading"
    /\ LET r == AcceptLanguage(serverClasses, MethodArgs(c, k), languages) IN
        /\ serverClasses' = r.reg
        /\ thrown' = r.err
    /\ declared' = [declared EXCEPT ![c].methods[k].languages = Some(languages)]
    /\ UNCHANGED <<load, phase, request, response, call, sent>>

\* @Accept(...accepts) class c
AcceptOnClass(c, accepts) ==
    /\ phase = "loading"
    /\ LET r == Accept(serverClasses, ClassArgs(c), accepts) IN
        /\ serverClasses' = r.reg
        /\ thrown' = r.err
    /\ declared' = [declared EXCEPT ![c].accepts = Some(accepts)]
    /\ UNCHANGED <<load, phase, request, response, call, sent>>

\* @Accept(...accepts) method k of class c
AcceptOnMethod(c, k, accepts) ==
    /\ phase = "loading"
    /\ LET r == Accept(serverClasses, MethodArgs(c, k), accepts) IN
        /\ serverClasses' = r.reg
        /\ thrown' = r.err
    /\ declared' = [declared EXCEPT ![c].methods[k].accepts = Some(accepts)]
    /\ UNCHANGED <<load, phase, request, response, call, sent>>

\* @GET, @POST, ... method k of class c
VerbOnMethod(c, k, v) ==
    /\ phase = "loading"
    /\ LET r == VerbDecorator(serverClasses, c, k, v) IN
        /\ serverClasses' = r.reg
        /\ thrown' = r.err
    /\ UNCHANGED <<load, declared, phase, request, response, call, sent>>

\* @QueryParam(name) on the parameter at parameterIndex of method k of class
\* c; the parameter decorators of a method run before its method decorators
QueryParamOn(c, k, parameterIndex, name) ==
    /\ phase = "loading"
    /\ ~IsSome(serverClasses[c].methods[k].httpMethod)
    /\ ~IsSome(serverClasses[c].methods[k].path)
    /\ serverClasses' = QueryParam(serverClasses, name, c, k, parameterIndex)
    /\ thrown' = NoError
    /\ declared' = [declared EXCEPT ![c].methods[k].params =
            {d \in @ : d.index # parameterIndex}
                \cup {[index |-> parameterIndex, name |-> name, paramType |-> "query"]}]
    /\ UNCHANGED <<load, phase, request, response, call, sent>>

\* a method carries at most MaxVerbs verb decorators
MaxVerbs == 2

\* the decorators among @Path, @Accept and @AcceptLanguage that method k of
\* class c carries so far
MethodDecoratorsOn(c, k) ==
    { f \in {"path", "accepts", "languages"} : IsSome(declared[c].methods[k][f]) }

\* the verb decorator v on method k of class c, kept in the declarations
\* with what it threw
VerbDecoratorOn(c, k, v) ==
    /\ phase = "loading"
    /\ Len(declared[c].methods[k].verbs) < MaxVerbs
    /\ LET r == VerbDecorator(serverClasses, c, k, v) IN
        /\ serverClasses' = r.reg
        /\ thrown' = r.err
        /\ declared' = [declared EXCEPT ![c].methods[k].verbs =
                            Append(@, [verb |-> v, err |-> r.err,
                                       earlier |-> MethodDecoratorsOn(c, k)])]
    /\ UNCHANGED <<load, phase, request, response, call, sent>>

\* @PathParam(name), @FileParam(name), ... (by dec) on the parameter at
\* parameterIndex of method k of class c, before the method decorators
ParamDecoratorOn(c, k, parameterIndex, dec, name) ==
    /\ phase = "loading"
    /\ declared[c].methods[k].verbs = <<>>
    /\ ~IsSome(serverClasses[c].methods[k].httpMethod)
    /\ ~IsSome(serverClasses[c].methods[k].path)
    /\ serverClasses' = ParamDecorator(dec, serverClasses, name, c, k, parameterIndex)
    /\ thrown' = NoError
    /\ declared' = [declared EXCEPT ![c].methods[k].params =
            {d \in @ : d.index # parameterIndex}
                \cup {[index |-> parameterIndex, name |-> name,
                       paramType |-> NamedParamType(dec)]}]
    /\ UNCHANGED <<load, phase, request, response, call, sent>>

\* the dual-use decorator called name applied to a declaration of any kind;
\* the loading goes no further than a declaration that throws
Decorate(name, args) ==
    /\ phase = "loading"
    /\ thrown = NoError
    /\ LET r == DualUseDecorator(name, serverClasses, args) IN
        /\ serverClasses' = r.reg
        /\ thrown' = r.err
    /\ UNCHANGED <<load, declared, phase, request, response, call, sent>>

\* @Context, @ContextRequest, ... (by name) on the parameter at
\* parameterIndex of method k of class c
ContextParamOn(c, k, parameterIndex, name) ==
    /\ phase = "loading"
    /\ declared[c].methods[k].verbs = <<>>
    /\ ~IsSome(serverClasses[c].methods[k].httpMethod)
    /\ ~IsSome(serverClasses[c].methods[k].path)
    /\ LET r == ContextDecorator(name, serverClasses, ParameterArgs(c, k, parameterIndex)) IN
        /\ serverClasses' = r.reg
        /\ thrown' = r.err
    /\ declared' = [declared EXCEPT ![c].methods[k].params =
            {d \in @ : d.index # parameterIndex}
                \cup {[index |-> parameterIndex, name |-> "",
                       paramType |-> ContextParamType(name)]}]
    /\ UNCHANGED <<load, phase, request, response, call, sent>>

\* the controllers are loaded: the server builds its routes and listens
Build ==
    /\ phase = "loading"
    /\ phase' = "serving"
    /\ UNCHANGED <<load, serverClasses, thrown, declared, request, response, call, sent>>

\* a request arrives and is answered
Receive(req) ==
    /\ phase = "serving"
    /\ request = <<>>
    /\ request' = req
    /\ response' = Dispatch(serverClasses, req)
    /\ UNCHANGED <<load, serverClasses, thrown, declared, phase, call, sent>>

\* the exchange ends
Complete ==
    /\ phase = "serving"
    /\ request # <<>>
    /\ request' = <<>>
    /\ response' = NoResponse
    /\ UNCHANGED <<load, serverClasses, thrown, declared, phase, call, sent>>

\* paths and verbs
Next ==
    \/ \E c \in {"Service"}, p \in ClassPaths : PathOnClass(c, p)
    \/ \E c \in {"Service"}, k \in Methods, p \in MethodPaths : PathOnMethod(c, k, p)
    \/ \E c \in {"Service"}, k \in Methods, v \in VerbNames : VerbOnMethod(c, k, v)
    \/ Build
    \/ \E req \in RouteRequests : Receive(req)
    \/ Complete

Spec == Init /\ [][Next]_vars

\* content negotiation
NextAccept ==
    \/ \E c \in {"Service"} : AcceptLanguageOnClass(c, ClassLanguages)
    \/ \E c \in {"Service"}, k \in Methods : AcceptLanguageOnMethod(c, k, MethodLanguages)
    \/ \E c \in {"Service"} : AcceptOnClass(c, ClassAccepts)
    \/ \E c \in {"Service"}, k \in Methods : AcceptOnMethod(c, k, MethodAccepts)
    \/ \E c \in {"Service"}, k \in Methods, v \in {"GET", "PUT"} : VerbOnMethod(c, k, v)
    \/ Build
    \/ \E req \in AcceptRequests : Receive(req)
    \/ Complete

SpecAccept == Init /\ [][NextAccept]_vars

\* parameter binding
NextParams ==
    \/ \E k \in Methods, i \in 0..(Len(QueryNames) - 1) :
            QueryParamOn("TestParams", k, i, QueryNames[i + 1])
    \/ \E k \in Methods : PathOnMethod("TestParams", k, ParamPath(k))
    \/ \E k \in Methods : VerbOnMethod("TestParams", k, "GET")
    \/ Build
    \/ \E req \in ParamRequests : Receive(req)
    \/ Complete

SpecParams == Init /\ [][NextParams]_vars

\* the paths of MyService and PersonService
NextPath ==
    \/ \E p \in PersonClassPaths : PathOnClass("Service", p)
    \/ \E k \in Methods, p \in MethodPaths : PathOnMethod("Service", k, p)
    \/ \E k \in Methods, v \in {"GET", "PUT"} : VerbOnMethod("Service", k, v)
    \/ Build
    \/ \E req \in PathRequests : Receive(req)
    \/ Complete

SpecPath == Init /\ [][NextPath]_vars

\* inheritance: the methods of BaseApi, SuperClassService overriding m2
NextInherit ==
    \/ \E k \in Methods : PathOnMethod("BaseApi", k, InheritPath(k))
    \/ \E k \in Methods, v \in {"GET", "PUT"} : VerbOnMethod("BaseApi", k, v)
    \/ AbstractOnClass("BaseApi")
    \/ PathOnClass("SuperClassService", <<"superclass">>)
    \/ PathOnMethod("SuperClassService", "m2", InheritPath("m2"))
    \/ \E v \in {"GET", "PUT"} : VerbOnMethod("SuperClassService", "m2", v)
    \/ Build
    \/ \E req \in InheritRequests : Receive(req)
    \/ Complete

SpecInherit == Init /\ [][NextInherit]_vars

----------------------------------------------------------------------------
(* What the program text declares, read for a request *)

\* the route the text declares for method k of class c
DeclaredPath(c, k) == resolvePath(declared[c].path, declared[c].methods[k].path)

\* the registered service methods (those carrying a verb) declared on the
\* request's path
OnPath(req) ==
    { ck \in Classes \X Methods :
        /\ IsSome(serverClasses[ck[1]].methods[ck[2]].httpMethod)
        /\ pathMatches(DeclaredPath(ck[1], ck[2]), req.path) }

VerbsOnPath(req) ==
    { Val(serverClasses[ck[1]].methods[ck[2]].httpMethod) : ck \in OnPath(req) }

\* the languages / media types the text declares for method k of class c:
\* those of the class, then those of the method
DeclaredLanguages(c, k) ==
    OrEmpty(declared[c].languages) \o OrEmpty(declared[c].methods[k].languages)
DeclaredAccepts(c, k) ==
    OrEmpty(declared[c].accepts) \o OrEmpty(declared[c].methods[k].accepts)

\* the target method of the request in flight: the first registered method
\* on its verb and path; <<>> when there is none
Target ==
    LET routes == buildServices(serverClasses, 1)
        hits == { i \in 1..Len(routes) :
                    /\ routes[i].httpMethod = request.method
                    /\ pathMatches(routes[i].resolvedPath, request.path) }
    IN  IF hits = {} THEN undefined
        ELSE LET r == routes[CHOOSE i \in hits : \A j \in hits : i <= j]
             IN Some(<<r.cls, r.key>>)

InFlight == request # <<>>

\* the header names one of the declared values, or cannot cause a rejection
HeaderAcceptable(header, declaredValues) ==
    \/ ~IsSome(header)
    \/ declaredValues = <<>>
    \/ Range(Val(header)) \cap Range(declaredValues) # {}

----------------------------------------------------------------------------
(* Claims *)

\* C1: a request whose path carries registered methods, none of them for the
\* request's verb, invokes no handler and is answered 405 with an Allow
\* header listing exactly the verbs registered for that path.
C1_MethodNotAllowed ==
    (InFlight /\ OnPath(request) # {} /\ request.method \notin VerbsOnPath(request))
        => /\ response.status = 405
           /\ response.invoked = undefined
           /\ response.allow = { HttpMethodName(v) : v \in VerbsOnPath(request) }

\* a POST to a path that serves GET and PUT is refused with Allow: GET, PUT
C1_Witness ==
    /\ InFlight
    /\ request.method = HttpMethod_POST
    /\ request.path = <<"a", "1">>
    /\ VerbsOnPath(request) = {HttpMethod_GET, HttpMethod_PUT}
    /\ response.status = 405
    /\ response.allow = {"GET", "PUT"}

\* C2: a request whose path carries no registered method, whatever its verb,
\* invokes no handler and is answered 404, not 405.
C2_NotFound ==
    (InFlight /\ OnPath(request) = {})
        => /\ response.status = 404
           /\ response.invoked = undefined

\* an unmapped path is requested while other paths are served
C2_Witness ==
    /\ InFlight
    /\ request.path = <<"b">>
    /\ \E k \in Methods : IsSome(serverClasses["Service"].methods[k].httpMethod)
    /\ response.status = 404

\* C3: for a target method that declares languages, a request whose
\* Accept-Language header names none of them is answered 406 without the
\* handler being invoked; a request naming one of them (and not refused for
\* its Accept header) reaches the handler with a language that is both named
\* and declared as the context language.
C3_AcceptLanguage ==
    (InFlight /\ IsSome(Target) /\ IsSome(request.acceptLanguage))
        => LET c == Val(Target)[1]
               k == Val(Target)[2]
               named == Range(Val(request.acceptLanguage))
               decl == Range(DeclaredLanguages(c, k))
           IN  /\ (decl # {} /\ named \cap decl = {})
                    => (response.status = 406 /\ response.invoked = undefined)
               /\ (named \cap decl # {}
                     /\ HeaderAcceptable(request.accept, DeclaredAccepts(c, k)))
                    => /\ response.invoked = Target
                       /\ IsSome(response.language)
                       /\ Val(response.language) \in named \cap decl

\* 'fr' is refused by a method of a class declaring 'en', 'pt-BR'
C3_Witness ==
    /\ InFlight /\ IsSome(Target)
    /\ request.acceptLanguage = Some(<<"fr">>)
    /\ DeclaredLanguages(Val(Target)[1], Val(Target)[2]) = <<"en", "pt-BR">>
    /\ response.status = 406

\* C4: for a target method that declares media types, a request whose Accept
\* header names none of them is answered 406 without the handler being
\* invoked; a method that declares no media types is never answered 406
\* because of the Accept header (only because of its language).
C4_Accept ==
    (InFlight /\ IsSome(Target))
        => LET c == Val(Target)[1]
               k == Val(Target)[2]
               decl == Range(DeclaredAccepts(c, k))
           IN  /\ (IsSome(request.accept) /\ decl # {}
                     /\ Range(Val(request.accept)) \cap decl = {})
                    => (response.status = 406 /\ response.invoked = undefined)
               /\ (decl = {} /\ response.status = 406)
                    => ~HeaderAcceptable(request.acceptLanguage, DeclaredLanguages(c, k))

\* 'text/html' is refused by a method declaring media types, and a method
\* declaring none is reached with the same header
C4_Witness ==
    /\ InFlight /\ IsSome(Target)
    /\ request.accept = Some(<<"text/html">>)
    /\ DeclaredAccepts(Val(Target)[1], Val(Target)[2]) = <<"text/xml">>
    /\ response.status = 406

\* C5: a request without Accept-Language header to a method declaring
\* languages reaches the handler with the first declared language as context
\* language, and a request without Accept header to a method declaring media
\* types reaches it with the first declared media type (the other header not
\* causing a refusal).
C5_Defaults ==
    (InFlight /\ IsSome(Target))
        => LET c == Val(Target)[1]
               k == Val(Target)[2]
               langs == DeclaredLanguages(c, k)
               types == DeclaredAccepts(c, k)
           IN  /\ (~IsSome(request.acceptLanguage) /\ langs # <<>>
                     /\ HeaderAcceptable(request.accept, types))
                    => (response.invoked = Target /\ response.language = Some(langs[1]))
               /\ (~IsSome(request.accept) /\ types # <<>>
                     /\ HeaderAcceptable(request.acceptLanguage, langs))
                    => (response.invoked = Target /\ response.accept = Some(types[1]))

\* no headers at all: 'en' and 'application/json' are bound
C5_Witness ==
    /\ InFlight /\ IsSome(Target)
    /\ request.acceptLanguage = undefined /\ request.accept = undefined
    /\ response.invoked = Target
    /\ response.language = Some("en")
    /\ response.accept = Some("application/json")

\* C6: the languages declared on a method add to those of its class: with
\* 'en', 'pt-BR' on the class, a method declaring 'fr' serves a request for
\* 'fr' with 'fr' as context language and still serves the class languages,
\* while a method of the class declaring nothing itself answers 'fr' with 406.
C6_MethodLanguages ==
    (InFlight /\ IsSome(Target) /\ declared[Val(Target)[1]].languages = Some(ClassLanguages)
              /\ HeaderAcceptable(request.accept,
                                  DeclaredAccepts(Val(Target)[1], Val(Target)[2])))
        => LET c == Val(Target)[1]
               k == Val(Target)[2]
               own == declared[c].methods[k].languages
           IN  /\ (own = Some(<<"fr">>) /\ request.acceptLanguage = Some(<<"fr">>))
                    => (response.invoked = Target /\ response.language = Some("fr"))
               /\ (own = Some(<<"fr">>) /\ request.acceptLanguage = Some(<<"pt-BR">>))
                    => (response.invoked = Target /\ response.language = Some("pt-BR"))
               /\ (own = undefined /\ request.acceptLanguage = Some(<<"fr">>))
                    => (response.status = 406 /\ response.invoked = undefined)

\* both methods are served; the one declaring 'fr' answers a request for 'fr'
C6_Witness ==
    /\ InFlight /\ IsSome(Target)
    /\ declared["Service"].languages = Some(ClassLanguages)
    /\ \E k \in Methods :
          /\ k # Val(Target)[2]
          /\ IsSome(serverClasses["Service"].methods[k].httpMethod)
          /\ declared["Service"].methods[k].languages = undefined
    /\ declared["Service"].methods[Val(Target)[2]].languages = Some(<<"fr">>)
    /\ request.acceptLanguage = Some(<<"fr">>)
    /\ response.invoked = Target
    /\ response.language = Some("fr")

\* C7: a verb decorator applied to a method that already carries a verb, GET
\* included, throws and leaves the method mapped to the verb applied first.
C7_OneVerbPerMethod ==
    [][\A c \in Classes, k \in Methods :
          (IsSome(serverClasses[c].methods[k].httpMethod)
             /\ \E v \in VerbNames : VerbOnMethod(c, k, v))
          => /\ thrown' # NoError
             /\ serverClasses'[c].methods[k].httpMethod
                  = serverClasses[c].methods[k].httpMethod]_vars

\* the decorated parameters of the method invoked for the request in flight
BoundParams ==
    declared[Val(response.invoked)[1]].methods[Val(response.invoked)[2]].params

\* the declared type of the parameter at index
DeclaredType(index) ==
    DesignParamTypes(Val(response.invoked)[1], Val(response.invoked)[2])[index + 1]

JsTypeOf(type) ==
    IF type = "Number" THEN "number" ELSE IF type = "Boolean" THEN "boolean" ELSE "string"

\* C8: an absent query parameter reaches the handler as its declared default,
\* or as undefined when it declares none, whatever its type; a query
\* parameter that is sent reaches it as a value of the declared type made
\* from the text sent ('5' is 5, 'test' is 'test', 'true' and 'false' are the
\* booleans), never as the default.
C8_QueryDefaults ==
    (InFlight /\ IsSome(response.invoked))
        => \A d \in BoundParams :
             LET given == request.query[d.name]
                 arg == response.args[d.index + 1]
                 dflt == HandlerDefault(Val(response.invoked)[1],
                                        Val(response.invoked)[2], d.index + 1)
             IN  /\ ~IsSome(given) =>
                        arg = (IF IsSome(dflt) THEN Val(dflt) ELSE JsUndefined)
                 /\ IsSome(given) =>
                        /\ arg.t = JsTypeOf(DeclaredType(d.index))
                        /\ (DeclaredType(d.index) = "Number" /\ Val(given) = Chars_5)
                              => arg = JsNumber(5)
                        /\ DeclaredType(d.index) = "String" => arg = JsString(Val(given))
                        /\ DeclaredType(d.index) = "Boolean"
                              => arg = JsBoolean(Val(given) = Chars_true)

\* /default-query?limit=5&expand=false: limit and expand as sent, prefix defaulted
C8_Witness ==
    /\ InFlight
    /\ response.invoked = Some(<<"TestParams", "m1">>)
    /\ Cardinality(BoundParams) = 3
    /\ request.query["prefix"] = undefined
    /\ response.args = << JsNumber(5), JsString(<<"d", "e", "f", "a", "u", "l", "t">>),
                          JsBoolean(FALSE) >>

\* C9: a query parameter sent with an empty value is not defaulted: a number
\* parameter is NaN, a string parameter the empty string, a boolean parameter
\* false, with or without a declared default.
C9_EmptyQueryValue ==
    (InFlight /\ IsSome(response.invoked))
        => \A d \in BoundParams :
             request.query[d.name] = Some(<<>>)
                => response.args[d.index + 1] =
                      (IF DeclaredType(d.index) = "Number" THEN JsNaN
                       ELSE IF DeclaredType(d.index) = "Boolean" THEN JsBoolean(FALSE)
                       ELSE JsString(<<>>))

\* /default-query?limit=&prefix=&expand= answers limit:NaN|prefix:|expand:false
C9_Witness ==
    /\ InFlight
    /\ response.invoked = Some(<<"TestParams", "m1">>)
    /\ Cardinality(BoundParams) = 3
    /\ \A n \in Range(QueryNames) : request.query[n] = Some(<<>>)
    /\ response.args = << JsNaN, JsString(<<>>), JsBoolean(FALSE) >>

----------------------------------------------------------------------------
(* Handler results: the reference wrappers of Return *)

WrapperKinds == {"NewResource", "RequestAccepted", "MovedPermanently", "MovedTemporarily"}

\* RequestAccepted carrying the status of a temporary redirect
statusCode_acceptedAsMoved(kind) ==
    IF kind = "NewResource" THEN 201
    ELSE IF kind = "MovedPermanently" THEN 301
    ELSE 302

\* the status a wrapper of the kind carries (statusCode of its class)
statusCode(kind) ==
    IF kind = "NewResource" THEN 201
    ELSE IF kind = "RequestAccepted" THEN 202
    ELSE IF kind = "MovedPermanently" THEN 301
    ELSE 302

\* new Return.<kind>(location, body): a ReferencedResource
ReferencedResource(kind, location, body) ==
    [kind |-> kind, location |-> location, body |-> body, statusCode |-> statusCode(kind)]

\* the locations and bodies the handlers of ReferenceService and
\* PersonService give: '' + p.id, req.url + '/' + person.id; { id: person.id }
Locations == {"123", "7", "/asubpath/person/123"}
Bodies == {undefined, Some("{id:123}"), Some("{id:7}")}

ErrorKinds == {"BadRequestError", "NotFoundError", "ConflictError", "InternalServerError"}

\* every REST error answered as an internal server error
errorStatusCode_always500(kind) == 500

\* the status a REST error of the kind carries (Errors.<kind>: HttpError.statusCode)
errorStatusCode(kind) ==
    IF kind = "BadRequestError" THEN 400
    ELSE IF kind = "NotFoundError" THEN 404
    ELSE IF kind = "ConflictError" THEN 409
    ELSE 500

\* new Errors.<kind>(message): an HttpError
HttpError(kind, message) ==
    [kind |-> kind, message |-> message, statusCode |-> errorStatusCode(kind)]

\* a handler returning a wrapper, directly or through a promise
\* (ReferenceService), or throwing a REST error, in its body or inside the
\* promise it returns (AcceptTest.testConflict, testConflictAsync)
HandlerCalls ==
    { [does |-> "returns", result |-> ReferencedResource(kind, l, b), writes |-> <<>>,
       async |-> a, stage |-> "ready"] :
        kind \in WrapperKinds, l \in Locations, b \in Bodies, a \in BOOLEAN }
    \cup
    { [does |-> "throws", result |-> HttpError(kind, "test of conflict"), writes |-> <<>>,
       async |-> a, stage |-> "ready"] :
        kind \in ErrorKinds, a \in BOOLEAN }

\* InternalServer.sendValue for a ReferencedResource: Location header, the
\* wrapper's status, and its body when it has one
sendValue(value) ==
    [status |-> value.statusCode, location |-> Some(value.location), body |-> value.body]

\* InternalServer.sendValue(value, res) after written was sent on res: an
\* undefined result is answered 204 unless the headers are sent already
sendResult(value, written) ==
    IF value = JsUndefined
    THEN IF Len(written) > 0 THEN written
         ELSE Append(written, [status |-> 204, location |-> undefined, body |-> undefined])
    ELSE Append(written, sendValue(value))

\* TestParams.testContext(q, request, response, next): what the call does
\* with the arguments it is given
testContext(args) ==
    IF args[2] # JsUndefined /\ args[3] # JsUndefined /\ args[4] # JsUndefined
    THEN IF args[3] = JsObject("response")
         THEN [does |-> "returns", result |-> JsUndefined,
               writes |-> << [status |-> 201, location |-> undefined,
                              body |-> Some(IF args[1] = JsString(Chars_123)
                                            THEN "true" ELSE "false")] >>,
               async |-> FALSE, stage |-> "ready"]
         ELSE [does |-> "throws",
               result |-> [kind |-> "TypeError",
                           message |-> "response.status is not a function",
                           statusCode |-> 500],
               writes |-> <<>>, async |-> FALSE, stage |-> "ready"]
    ELSE [does |-> "returns", result |-> JsUndefined, writes |-> <<>>,
          async |-> FALSE, stage |-> "ready"]

InitReturn ==
    /\ serverClasses = [c \in Classes |-> NewServiceClass]
    /\ thrown = NoError
    /\ declared = NothingDeclared
    /\ phase = "handling"
    /\ request = <<>>
    /\ response = NoResponse
    /\ call \in HandlerCalls
    /\ sent = <<>>
    /\ load = NotLoading

\* the dispatcher calls the handler: it returns its result, or a promise,
\* or throws
Invoke ==
    /\ phase = "handling"
    /\ call.stage = "ready"
    /\ call' = [call EXCEPT !.stage =
                    IF call.async THEN "pending"
                    ELSE IF call.does = "throws" THEN "failed"
                    ELSE "returned"]
    /\ sent' = sent \o call.writes
    /\ UNCHANGED <<load, serverClasses, thrown, declared, phase, request, response>>

\* the promise the handler returned settles: it resolves with the result,
\* or rejects with the error thrown inside it
Resolve ==
    /\ phase = "handling"
    /\ call.stage = "pending"
    /\ call' = [call EXCEPT !.stage = IF call.does = "throws" THEN "failed" ELSE "returned"]
    /\ UNCHANGED <<load, serverClasses, thrown, declared, phase, request, response, sent>>

\* the error handler answers a thrown error (next(err)): the error's status
\* and message
HandleError ==
    /\ phase = "handling"
    /\ call.stage = "failed"
    /\ sent' = Append(sent, [status |-> call.result.statusCode, location |-> undefined,
                             body |-> Some(call.result.message)])
    /\ call' = [call EXCEPT !.stage = "sent"]
    /\ UNCHANGED <<load, serverClasses, thrown, declared, phase, request, response>>

\* the dispatcher sends the handler's result
Send ==
    /\ phase = "handling"
    /\ call.stage = "returned"
    /\ sent' = sendResult(call.result, sent)
    /\ call' = [call EXCEPT !.stage = "sent"]
    /\ UNCHANGED <<load, serverClasses, thrown, declared, phase, request, response>>

\* the dispatcher comes to call testContext for the request in flight
CallTarget ==
    /\ phase = "serving"
    /\ request # <<>>
    /\ response.invoked = Some(<<"TestContext", "m1">>)
    /\ call = NoCall
    /\ call' = testContext(response.args)
    /\ phase' = "handling"
    /\ UNCHANGED <<load, serverClasses, thrown, declared, request, response, sent>>

NextReturn == Invoke \/ Resolve \/ Send \/ HandleError

SpecReturn == InitReturn /\ [][NextReturn]_vars

\* C10: the response to a handler that returned a reference wrapper,
\* directly or through a promise, has the status of the wrapper's kind (201
\* NewResource, 202 RequestAccepted, 301 MovedPermanently, 302
\* MovedTemporarily) and the wrapper's location as Location header; for
\* NewResource the wrapper's body is the response body.
C10_ReferenceWrappers ==
    (phase = "handling" /\ call.stage = "sent" /\ call.does = "returns")
        => LET r == sent[Len(sent)] IN
           /\ Len(sent) > 0
           /\ r.location = Some(call.result.location)
           /\ call.result.kind = "NewResource" => (r.status = 201 /\ r.body = call.result.body)
           /\ call.result.kind = "RequestAccepted" => r.status = 202
           /\ call.result.kind = "MovedPermanently" => r.status = 301
           /\ call.result.kind = "MovedTemporarily" => r.status = 302

\* testAccepted: a promise of RequestAccepted('123') is answered 202, Location 123
C10_Witness ==
    /\ phase = "handling" /\ call.stage = "sent" /\ call.async
    /\ call.result.kind = "RequestAccepted"
    /\ sent = << [status |-> 202, location |-> Some("123"), body |-> undefined] >>

\* C11: a handler raising a REST error is answered with that error's status
\* code (409 for ConflictError), whether it throws in its body or inside the
\* promise it returns, and exactly one response is sent for the request.
C11_RestErrors ==
    (phase = "handling" /\ call.does = "throws")
        => /\ Len(sent) <= 1
           /\ call.stage = "sent"
                => /\ Len(sent) = 1
                   /\ call.result.kind = "BadRequestError" => sent[1].status = 400
                   /\ call.result.kind = "NotFoundError" => sent[1].status = 404
                   /\ call.result.kind = "ConflictError" => sent[1].status = 409
                   /\ call.result.kind = "InternalServerError" => sent[1].status = 500
           /\ call.stage # "sent" => sent = <<>>

\* testConflictAsync: the ConflictError thrown inside the promise is answered 409
C11_Witness ==
    /\ phase = "handling" /\ call.does = "throws" /\ call.async
    /\ call.result.kind = "ConflictError"
    /\ call.stage = "sent"
    /\ Len(sent) = 1 /\ sent[1].status = 409

----------------------------------------------------------------------------
(* Inheritance *)

\* the class whose declaration of method k a request to SuperClassService
\* meets: its own when it declares k, else that of its superclass
Served(k) ==
    IF serverClasses["SuperClassService"].methods[k].exists
    THEN "SuperClassService" ELSE "BaseApi"

\* the methods SuperClassService exposes on the path of the request in
\* flight, and those of them mapped to its verb
SubclassOnPath ==
    IF ~serverClasses["SuperClassService"].exists THEN {}
    ELSE { k \in Methods :
            /\ IsSome(serverClasses[Served(k)].methods[k].httpMethod)
            /\ pathMatches(resolvePath(declared["SuperClassService"].path,
                                       declared[Served(k)].methods[k].path),
                           request.path) }

SubclassTargets ==
    { k \in SubclassOnPath :
        Val(serverClasses[Served(k)].methods[k].httpMethod) = request.method }

\* C12: with BaseApi abstract and without @Path, SuperClassService exposes
\* under its own path the service methods of BaseApi: a request meeting a
\* method it does not override is dispatched to the implementation of
\* BaseApi, a request meeting a method it overrides to its own
\* implementation only, and a request on no path of SuperClassService is
\* answered 404: BaseApi contributes no route of its own.
C12_Inheritance ==
    (InFlight /\ declared["BaseApi"].isAbstract /\ ~IsSome(declared["BaseApi"].path))
        => /\ SubclassOnPath = {}
                => (response.status = 404 /\ response.invoked = undefined)
           /\ \A k \in Methods :
                SubclassTargets = {k} => response.invoked = Some(<<Served(k), k>>)

\* GET /superclass/123 runs testCrudGet of BaseApi while SuperClassService
\* overrides the method on overload/:id
C12_Witness ==
    /\ InFlight
    /\ declared["BaseApi"].isAbstract
    /\ declared["SuperClassService"].path = Some(<<"superclass">>)
    /\ serverClasses["SuperClassService"].methods["m2"].httpMethod = Some(HttpMethod_GET)
    /\ serverClasses["BaseApi"].methods["m2"].httpMethod = Some(HttpMethod_GET)
    /\ declared["SuperClassService"].methods["m2"].path = Some(InheritPath("m2"))
    /\ declared["BaseApi"].methods["m2"].path = Some(InheritPath("m2"))
    /\ request.method = HttpMethod_GET
    /\ request.path = <<"superclass", "123">>
    /\ response.status = 200
    /\ response.invoked = Some(<<"BaseApi", "m1">>)

\* GET /superclass/overload/123 runs the override, not testOverloadGet of BaseApi
C12_WitnessOverride ==
    /\ InFlight
    /\ declared["BaseApi"].isAbstract
    /\ serverClasses["BaseApi"].methods["m2"].httpMethod = Some(HttpMethod_GET)
    /\ request.method = HttpMethod_GET
    /\ request.path = <<"superclass", "overload", "123">>
    /\ response.invoked = Some(<<"SuperClassService", "m2">>)

----------------------------------------------------------------------------
(* Route paths *)

\* the segments with one '/' in front of each
RECURSIVE Slashed(_)
Slashed(segs) ==
    IF segs = <<>> THEN <<>> ELSE <<"/", Head(segs)>> \o Slashed(Tail(segs))

\* the segments the text declares for method k of class c
DeclaredSegs(c, k) ==
    Segs(OrEmpty(declared[c].path)) \o Segs(OrEmpty(declared[c].methods[k].path))

\* the methods of class c mapped to the verb of the request in flight whose
\* declared segments its path matches
DeclaredTargets(c) ==
    { k \in Methods :
        /\ serverClasses[c].methods[k].httpMethod = Some(request.method)
        /\ pathMatches(DeclaredSegs(c, k), request.path) }

\* C13: the route of a service method of a class declaring a path is the
\* segments of the class path, then those of the method path if it declares
\* one, with exactly one '/' in front of each, whether or not either path is
\* declared with a leading '/'; a request to it reaches the method.
C13_RoutePath ==
    \A c \in {"Service"}, k \in Methods :
        (IsSome(declared[c].path) /\ IsSome(serverClasses[c].methods[k].httpMethod))
            => /\ resolvedPathText(serverClasses[c].path, serverClasses[c].methods[k].path)
                    = Slashed(DeclaredSegs(c, k))
               /\ (InFlight /\ DeclaredTargets(c) = {k})
                    => response.invoked = Some(<<c, k>>)

\* PersonService: @Path(':id') getPerson and @Path('/:id') setPerson are both
\* routed at /asubpath/person/:id, and PUT /asubpath/person/123 reaches setPerson
C13_Witness ==
    /\ InFlight
    /\ declared["Service"].path = Some(<<"/", "asubpath", "/", "person">>)
    /\ declared["Service"].methods["m1"].path = Some(<<":id">>)
    /\ declared["Service"].methods["m2"].path = Some(<<"/", ":id">>)
    /\ serverClasses["Service"].methods["m1"].httpMethod = Some(HttpMethod_GET)
    /\ serverClasses["Service"].methods["m2"].httpMethod = Some(HttpMethod_PUT)
    /\ \A k \in Methods :
          resolvedPathText(serverClasses["Service"].path,
                           serverClasses["Service"].methods[k].path)
            = <<"/", "asubpath", "/", "person", "/", ":id">>
    /\ request.method = HttpMethod_PUT
    /\ request.path = <<"asubpath", "person", "123">>
    /\ response.invoked = Some(<<"Service", "m2">>)

\* MyService: @Path('mypath') with a method declaring no path serves /mypath
C13_WitnessClassPath ==
    /\ InFlight
    /\ declared["Service"].path = Some(<<"mypath">>)
    /\ declared["Service"].methods["m1"].path = undefined
    /\ resolvedPathText(serverClasses["Service"].path,
                        serverClasses["Service"].methods["m1"].path) = <<"/", "mypath">>
    /\ request.path = <<"mypath">>
    /\ response.invoked = Some(<<"Service", "m1">>)

----------------------------------------------------------------------------
(* Context parameters: TestParams.testContext *)

\* the decorators of testContext, then a request to it and its handling
NextContext ==
    \/ QueryParamOn("TestContext", "m1", 0, "q")
    \/ \E i \in 1..3, name \in {"ContextRequest", "ContextResponse", "ContextNext"} :
            ContextParamOn("TestContext", "m1", i, name)
    \/ PathOnMethod("TestContext", "m1", <<"context">>)
    \/ VerbOnMethod("TestContext", "m1", "GET")
    \/ Build
    \/ \E req \in ContextRequests : Receive(req)
    \/ CallTarget
    \/ Invoke
    \/ Send
    \/ HandleError

SpecContext == Init /\ [][NextContext]_vars

\* the text declares testContext(@QueryParam('q') q, @ContextRequest request,
\* @ContextResponse response, @ContextNext next)
TestContextDeclared ==
    declared["TestContext"].methods["m1"].params =
        { [index |-> 0, name |-> "q", paramType |-> "query"],
          [index |-> 1, name |-> "", paramType |-> "context_request"],
          [index |-> 2, name |-> "", paramType |-> "context_response"],
          [index |-> 3, name |-> "", paramType |-> "context_next"] }

\* C14: once testContext, declared with its context parameters, has returned,
\* the only response of the request is the one it wrote itself on the
\* injected response, status 201 and its body, before and after the
\* dispatcher has dealt with its (undefined) result.
C14_HandlerWritesResponse ==
    (phase = "handling" /\ TestContextDeclared)
        => /\ call.stage = "ready" => sent = <<>>
           /\ call.stage \in {"returned", "sent"}
                => sent = << [status |-> 201, location |-> undefined,
                              body |-> Some(IF request.query["q"] = Some(Chars_123)
                                            THEN "true" ELSE "false")] >>
           /\ call.stage \notin {"ready", "returned", "sent"} => FALSE

\* GET /context?q=123: 201 'true' is the one response after the dispatcher is done
C14_Witness ==
    /\ phase = "handling" /\ TestContextDeclared
    /\ request.query["q"] = Some(Chars_123)
    /\ call.stage = "sent"
    /\ sent = << [status |-> 201, location |-> undefined, body |-> Some("true")] >>

----------------------------------------------------------------------------
(* The parameters of a method: TestParams.m1(Number, String, Boolean) *)

\* parameter and verb decorators on one method, in any order the language allows
NextMethod ==
    \/ \E i \in 0..2, dec \in ParamDecoratorNames :
            ParamDecoratorOn("TestParams", "m1", i, dec, QueryNames[i + 1])
    \/ \E i \in 0..2, name \in ContextNames : ContextParamOn("TestParams", "m1", i, name)
    \/ \E v \in {"GET", "POST"} : VerbDecoratorOn("TestParams", "m1", v)

SpecMethod == Init /\ [][NextMethod]_vars

\* the method the parameter claims are about, as registered and as declared
TheMethod == serverClasses["TestParams"].methods["m1"]
TheText == declared["TestParams"].methods["m1"]
TheTypes == DesignParamTypes("TestParams", "m1")

\* the indexes of its parameters declared with a decorator of the kind, and
\* of those declared without decorator (the body parameters)
IndexesOf(kind) == { d.index : d \in { e \in TheText.params : e.paramType = kind } }
Undecorated == { i \in 0..(Len(TheTypes) - 1) : \A d \in TheText.params : d.index # i }

\* a verb decorator was applied / one was applied and threw nothing
VerbApplied == Len(TheText.verbs) > 0
VerbSucceeded == \E i \in 1..Len(TheText.verbs) : TheText.verbs[i].err = NoError

FormBodyError == <<"Can not use form parameters with a body parameter on the same method.">>
ManyBodiesError == <<"Can not use more than one body parameter on the same method.">>

\* C15: no method has both mustParseForms and mustParseBody set, and every
\* verb decorator applied to a method with a @FormParam parameter and a body
\* (undecorated) parameter has thrown, whichever of the two comes first.
C15_FormOrBody ==
    /\ ~(TheMethod.mustParseForms /\ TheMethod.mustParseBody)
    /\ (IndexesOf("form") # {} /\ Undecorated # {})
          => \A i \in 1..Len(TheText.verbs) : TheText.verbs[i].err # NoError

\* m1(@FormParam limit, prefix, @FormParam expand) under @GET: the body
\* parameter after a form parameter is refused
C15_Witness ==
    /\ IndexesOf("form") = {0, 2}
    /\ Undecorated = {1}
    /\ VerbApplied
    /\ thrown = FormBodyError
    /\ TheMethod.mustParseForms /\ ~TheMethod.mustParseBody

\* m1(limit, @FormParam prefix, ...): the form parameter after a body
\* parameter is refused too
C15_WitnessBodyFirst ==
    /\ 0 \in Undecorated /\ 1 \in IndexesOf("form")
    /\ VerbApplied
    /\ thrown = FormBodyError
    /\ TheMethod.mustParseBody /\ ~TheMethod.mustParseForms

\* the second of the undecorated parameters, in declaration order
SecondUndecorated ==
    CHOOSE i \in Undecorated : Cardinality({ j \in Undecorated : j < i }) = 1

\* C16 as stated: the first verb decorator on a method with two or more
\* undecorated parameters throws 'Can not use more than one body parameter
\* on the same method.', and on a method with exactly one it succeeds and
\* sets mustParseBody.
C16_Original ==
    VerbApplied
        => /\ Cardinality(Undecorated) >= 2 => TheText.verbs[1].err = ManyBodiesError
           /\ Cardinality(Undecorated) = 1
                => (TheText.verbs[1].err = NoError /\ TheMethod.mustParseBody)

\* C16 amended: the first verb decorator on a method with two or more
\* undecorated parameters throws: 'Can not use form parameters with a body
\* parameter on the same method.' when a @FormParam parameter precedes the
\* second of them, else 'Can not use more than one body parameter on the same
\* method.'; on a method with exactly one undecorated parameter and no
\* @FormParam parameter it succeeds and sets mustParseBody.
C16_OneBodyParameter ==
    VerbApplied
        => /\ Cardinality(Undecorated) >= 2
                => TheText.verbs[1].err =
                     (IF \E f \in IndexesOf("form") : f < SecondUndecorated
                      THEN FormBodyError ELSE ManyBodiesError)
           /\ (Cardinality(Undecorated) = 1 /\ IndexesOf("form") = {})
                => (TheText.verbs[1].err = NoError /\ TheMethod.mustParseBody)

\* m1(limit, prefix, @QueryParam expand) under one verb decorator: refused
\* for its two body parameters
C16_Witness ==
    /\ Undecorated = {0, 1}
    /\ IndexesOf("query") = {2}
    /\ Len(TheText.verbs) = 1
    /\ thrown = ManyBodiesError

\* m1(@PathParam limit, prefix, @QueryParam expand), as setPerson(@PathParam
\* id, person): registered, with mustParseBody
C16_WitnessOneBody ==
    /\ Undecorated = {1}
    /\ IndexesOf("path") = {0}
    /\ Len(TheText.verbs) = 1
    /\ thrown = NoError
    /\ TheMethod.mustParseBody

----------------------------------------------------------------------------
(* The shapes of the dual-use decorators *)

NextShapes ==
    \E name \in DualUseNames, args \in ArgShapes("TestParams", "m1") : Decorate(name, args)

SpecShapes == Init /\ [][NextShapes]_vars

\* the declarations a decorator is for: a class or a method for Path, Accept
\* and AcceptLanguage, a property or a parameter for the context decorators
DeclaredShape(name, args) ==
    IF name \in {"Path", "Accept", "AcceptLanguage"}
    THEN Len(args) = 1 \/ (Len(args) = 3 /\ args[3].t = "object")
    ELSE Len(args) = 2 \/ (Len(args) = 3 /\ args[3].t = "number")

InvalidDeclaration(name) ==
    CASE name = "Path" -> <<"Invalid @Path Decorator declaration.">>
      [] name = "Accept" -> <<"Invalid @Accept Decorator declaration.">>
      [] name = "AcceptLanguage" -> <<"Invalid @AcceptLanguage Decorator declaration.">>
      [] name = "Context" -> <<"Invalid @Context Decorator declaration.">>
      [] name = "ContextRequest" -> <<"Invalid @ContextRequest Decorator declaration.">>
      [] name = "ContextResponse" -> <<"Invalid @ContextResponse Decorator declaration.">>
      [] name = "ContextNext" -> <<"Invalid @ContextNext Decorator declaration.">>
      [] name = "ContextLanguage" -> <<"Invalid @ContextLanguage Decorator declaration.">>
      [] name = "ContextAccept" -> <<"Invalid @ContextAccept Decorator declaration.">>

\* C17: a dual-use decorator applied to a declaration of one of its two
\* shapes throws nothing, and applied to any other it throws 'Invalid @<Name>
\* Decorator declaration.' and leaves the registry as it was.
C17_DecoratorShapes ==
    [][\A name \in DualUseNames, args \in ArgShapes("TestParams", "m1") :
          Decorate(name, args)
            => IF DeclaredShape(name, args) THEN thrown' = NoError
               ELSE /\ thrown' = InvalidDeclaration(name)
                    /\ serverClasses' = serverClasses]_vars

\* @ContextResponse on a method is refused after @Path on the class and
\* @Context on a property were taken, the registry holding those two only
C17_Witness ==
    /\ thrown = <<"Invalid @ContextResponse Decorator declaration.">>
    /\ serverClasses["TestParams"] =
          [NewServiceClass EXCEPT !.exists = TRUE, !.path = Some(<<"mypath">>),
                                  !.properties["context"] = Some("context")]

\* the entry the text declares for the parameter at index: the kind and name
\* of its decorator (a context decorator gives no name) or a nameless body
\* parameter, with the declared type of the parameter
ExpectedParam(index) ==
    IF \E d \in TheText.params : d.index = index
    THEN LET d == CHOOSE e \in TheText.params : e.index = index
         IN MethodParam(IF d.name = "" THEN undefined ELSE Some(d.name),
                        TheTypes[index + 1], d.paramType)
    ELSE MethodParam(undefined, TheTypes[index + 1], "body")

\* C18: once a verb decorator has succeeded on the method, its parameter
\* list has one entry per declared parameter, in declaration order, each with
\* the kind and name of the decorator of that parameter and its declared
\* type, the undecorated ones nameless body parameters, in whatever order the
\* parameter decorators ran.
C18_ParameterList ==
    VerbSucceeded
        => /\ Len(TheMethod.parameters) = Len(TheTypes)
           /\ \A i \in 1..Len(TheTypes) : TheMethod.parameters[i] = ExpectedParam(i - 1)

\* m1(@PathParam('limit') limit, prefix, @ContextRequest expand) under @GET
C18_Witness ==
    /\ VerbSucceeded
    /\ TheText.params = { [index |-> 0, name |-> "limit", paramType |-> "path"],
                          [index |-> 2, name |-> "", paramType |-> "context_request"] }
    /\ TheMethod.parameters =
          << MethodParam(Some("limit"), "Number", "path"),
             MethodParam(undefined, "String", "body"),
             MethodParam(undefined, "Boolean", "context_request") >>

\* the name the text gives the parameter at index
DeclaredName(index) == (CHOOSE d \in TheText.params : d.index = index).name

\* the file parameters the text declares, in declaration order from index on
RECURSIVE ExpectedFiles(_)
ExpectedFiles(index) ==
    IF index >= Len(TheTypes) THEN <<>>
    ELSE (IF index \in IndexesOf("file")
          THEN << FileParam(Some(DeclaredName(index)), TRUE) >>
          ELSE IF index \in IndexesOf("files")
          THEN << FileParam(Some(DeclaredName(index)), FALSE) >>
          ELSE <<>>) \o ExpectedFiles(index + 1)

\* C20: once a verb decorator has succeeded on the method, mustParseCookies
\* is set exactly when it has a @CookieParam parameter, mustParseForms
\* exactly when it has a @FormParam parameter, mustParseBody exactly when it
\* has a body (undecorated) parameter, and files holds one entry per
\* @FileParam or @FilesParam parameter, with its name, single-file for
\* @FileParam and multi-file for @FilesParam.
C20_ParsingFlags ==
    VerbSucceeded
        => /\ TheMethod.mustParseCookies <=> IndexesOf("cookie") # {}
           /\ TheMethod.mustParseForms <=> IndexesOf("form") # {}
           /\ TheMethod.mustParseBody <=> Undecorated # {}
           /\ TheMethod.files = ExpectedFiles(0)

\* the same of a method that carries one verb decorator
C20_OneVerb ==
    (VerbSucceeded /\ Len(TheText.verbs) = 1) => C20_ParsingFlags

----------------------------------------------------------------------------
(* The order of the method decorators: TestParams.m1 *)

OrderPaths == { <<":id">>, <<"overload", "/", ":id">> }

\* parameter decorators, then @Path, @Accept, @AcceptLanguage and the verb
\* decorators in any order
NextOrder ==
    \/ \E i \in 0..2, dec \in {"CookieParam", "FormParam"} :
            ParamDecoratorOn("TestParams", "m1", i, dec, QueryNames[i + 1])
    \/ \E p \in OrderPaths : PathOnMethod("TestParams", "m1", p)
    \/ AcceptOnMethod("TestParams", "m1", MethodAccepts)
    \/ AcceptLanguageOnMethod("TestParams", "m1", MethodLanguages)
    \/ \E v \in {"GET", "PUT"} : VerbDecoratorOn("TestParams", "m1", v)

SpecOrder == Init /\ [][NextOrder]_vars

\* the registry after the parameter decorators the text declares, from index on
RECURSIVE withParams(_, _)
withParams(reg, index) ==
    IF index >= Len(TheTypes) THEN reg
    ELSE withParams(
            IF \E d \in TheText.params : d.index = index
            THEN LET d == CHOOSE e \in TheText.params : e.index = index
                 IN processDecoratedParameter(reg, "TestParams", "m1", index, d.paramType,
                        IF d.name = "" THEN undefined ELSE Some(d.name))
            ELSE reg,
            index + 1)

\* the registry after the verb decorators the text declares, from the i-th on
RECURSIVE withVerbs(_, _)
withVerbs(reg, i) ==
    IF i > Len(TheText.verbs) THEN reg
    ELSE withVerbs(VerbDecorator(reg, "TestParams", "m1", TheText.verbs[i].verb).reg, i + 1)

\* the registry after the @Path, @Accept and @AcceptLanguage the text declares
withPathAndAccepts(reg) ==
    LET args == MethodArgs("TestParams", "m1")
        r1 == IF IsSome(TheText.path) THEN Path(reg, args, Val(TheText.path)).reg ELSE reg
        r2 == IF IsSome(TheText.accepts) THEN Accept(r1, args, Val(TheText.accepts)).reg
              ELSE r1
    IN  IF IsSome(TheText.languages)
        THEN AcceptLanguage(r2, args, Val(TheText.languages)).reg
        ELSE r2

\* the method as registered when @Path, @Accept and @AcceptLanguage all run
\* before the verb decorators, and when they all run after them
PathAndAcceptsFirst ==
    withVerbs(withPathAndAccepts(withParams([c \in Classes |-> NewServiceClass], 0)), 1)
        ["TestParams"].methods["m1"]
VerbsFirst ==
    withPathAndAccepts(withVerbs(withParams([c \in Classes |-> NewServiceClass], 0), 1))
        ["TestParams"].methods["m1"]

\* C19: whatever the order in which @Path, @Accept, @AcceptLanguage and the
\* verb decorator were applied to the method, its registered metadata (path,
\* verb, acceptable types, languages, parameter list, parsing flags) is what
\* it is when the three run before the verb decorator, and what it is when
\* they run after it.
C19_DecoratorOrder ==
    /\ TheMethod = PathAndAcceptsFirst
    /\ TheMethod = VerbsFirst

\* @Path, @Accept and @AcceptLanguage applied after a @PUT that succeeded on
\* m1(@CookieParam limit, @CookieParam prefix, expand)
C19_Witness ==
    /\ Len(TheText.verbs) = 1
    /\ TheText.verbs[1] = [verb |-> "PUT", err |-> NoError, earlier |-> {}]
    /\ MethodDecoratorsOn("TestParams", "m1") = {"path", "accepts", "languages"}
    /\ TheMethod.path = Some(<<"overload", "/", ":id">>)
    /\ TheMethod.httpMethod = Some(HttpMethod_PUT)
    /\ TheMethod.mustParseCookies /\ TheMethod.mustParseBody

\* the verb decorator applied between them: after @Path, before @Accept
C19_WitnessBetween ==
    /\ Len(TheText.verbs) = 1
    /\ TheText.verbs[1].earlier = {"path"}
    /\ MethodDecoratorsOn("TestParams", "m1") = {"path", "accepts", "languages"}
    /\ TheMethod.httpMethod = Some(HttpMethod_GET)
    /\ TheMethod.accepts = Some(MethodAccepts)

----------------------------------------------------------------------------
(* The loading of the module: src/typescript-rest.ts *)

\* directories are at most MaxDepth deep, at most MaxConfigs of them hold a
\* rest.config
MaxDepth == 2
MaxConfigs == 2

DirNames == {"a", "b"}
ConfigName == <<"rest.config">>

\* the names of the directories
Directories ==
    UNION { { path_format([i \in 1..n |-> <<f[i]>>]) : f \in [1..n -> DirNames] } :
            n \in 0..MaxDepth }

\* the directory layouts: which directories hold a rest.config
Layouts ==
    { F \in SUBSET { path_join(<<d, ConfigName>>) : d \in Directories } :
        Cardinality(F) <= MaxConfigs }

\* what a rest.config can say
Configs ==
    [useIoC : {JsUndefined, JsBoolean(TRUE), JsBoolean(FALSE)},
     es6 : {JsUndefined, JsBoolean(TRUE)},
     serviceFactory :
        {JsUndefined, JsString(<<>>), JsString(<<".", "/", "factory">>),
         JsString(<<".", ".", "/", "factory">>), JsString(<<"factory">>),
         JsString(<<"/", "opt", "/", "factory">>)}]

WorkingDirectories == { <<"/">>, <<"/", "w">>, <<"/", "w", "/", "app">> }

\* the module starts loading in a directory of some layout
InitSearch ==
    /\ serverClasses = [c \in Classes |-> NewServiceClass]
    /\ thrown = NoError
    /\ declared = NothingDeclared
    /\ phase = "loading"
    /\ request = <<>>
    /\ response = NoResponse
    /\ call = NoCall
    /\ sent = <<>>
    /\ \E d \in Directories, F \in Layouts :
            load = [NotLoading EXCEPT !.pc = "start", !.dirname = d, !.files = F]

\* the same, with what its rest.config says and the working directory
InitLoad ==
    /\ serverClasses = [c \in Classes |-> NewServiceClass]
    /\ thrown = NoError
    /\ declared = NothingDeclared
    /\ phase = "loading"
    /\ request = <<>>
    /\ response = NoResponse
    /\ call = NoCall
    /\ sent = <<>>
    /\ \E d \in Directories, F \in Layouts, w \in WorkingDirectories, config \in Configs :
            /\ Cardinality(F) <= 1
            /\ load = [NotLoading EXCEPT !.pc = "start", !.dirname = d, !.files = F,
                                         !.cwd = w, !.config = config]

\* searchConfigFile(): let configFile = path.join(__dirname, 'rest.config')
searchConfigFile ==
    /\ load.pc = "start"
    /\ load' = [load EXCEPT !.pc = "searching",
                            !.configFile = path_join(<<load.dirname, ConfigName>>)]
    /\ UNCHANGED <<serverClasses, thrown, declared, phase, request, response, call, sent>>

\* one test of the while condition: the return of the file that exists, or
\* one pass through the body
searchConfigFile_while ==
    /\ load.pc = "searching"
    /\ \E configFile \in {load.configFile} :
       \E dirname \in {path_dirname(configFile)} :
       \E joined \in {path_join(<<dirname, <<".", ".">>, ConfigName>>)} :
       \E fileOnParent \in {path_normalize(joined)} :
         load' =
             IF configFile \in load.files
             THEN [load EXCEPT !.pc = "searched", !.CONFIG_FILE = Some(configFile)]
             ELSE IF configFile = fileOnParent
             THEN [load EXCEPT !.pc = "searched", !.CONFIG_FILE = undefined]
             ELSE [load EXCEPT !.configFile = fileOnParent]
    /\ UNCHANGED <<serverClasses, thrown, declared, phase, request, response, call, sent>>

\* if (CONFIG_FILE && fs.existsSync(CONFIG_FILE)) { config = readJSONSync ... }
LoadConfig ==
    /\ load.pc = "searched"
    /\ load' =
         IF IsSome(load.CONFIG_FILE) /\ Val(load.CONFIG_FILE) \in load.files
         THEN [configure(load, load.config) EXCEPT !.pc = "loaded"]
         ELSE [load EXCEPT !.pc = "loaded"]
    /\ UNCHANGED <<serverClasses, thrown, declared, phase, request, response, call, sent>>

\* the search alone; a running module is not stopped, so it goes on
NextSearch == searchConfigFile \/ searchConfigFile_while

SpecSearch == InitSearch /\ [][NextSearch]_vars /\ WF_vars(NextSearch)

\* the search, then the configuration
NextLoad == searchConfigFile \/ searchConfigFile_while \/ LoadConfig

SpecLoad == InitLoad /\ [][NextLoad]_vars

\* the rest.config of the directory made of the first n segments of __dirname
ConfigAt(n) ==
    path_format(Append(SubSeq(path_split(load.dirname, <<>>), 1, n), ConfigName))

\* how many segments the nearest directory with a rest.config has, among
\* __dirname and the directories above it; -1 when none has one
NearestDepth ==
    LET depths == { n \in 0..Len(path_split(load.dirname, <<>>)) : ConfigAt(n) \in load.files }
    IN  IF depths = {} THEN -1 ELSE CHOOSE n \in depths : \A m \in depths : m <= n

NearestConfig == IF NearestDepth = -1 THEN undefined ELSE Some(ConfigAt(NearestDepth))

\* C21: in every directory layout the search of the configuration file
\* comes to an end, and its result is then the rest.config of the nearest
\* directory that has one, from the module's directory upwards, or null when
\* none has one up to the root.
C21_SearchTerminates ==
    <>(load.pc = "searched" /\ load.CONFIG_FILE = NearestConfig)

\* from /a/b, with a rest.config in / and in /b only, the search gives /rest.config
C21_Witness ==
    /\ load.pc = "searched"
    /\ load.dirname = <<"/", "a", "/", "b">>
    /\ load.files = { <<"/", "rest.config">>, <<"/", "b", "/", "rest.config">> }
    /\ load.CONFIG_FILE = Some(<<"/", "rest.config">>)

\* from /a/b, with a rest.config in /b only, the search gives null
C21_WitnessNull ==
    /\ load.pc = "searched"
    /\ load.dirname = <<"/", "a", "/", "b">>
    /\ load.files = { <<"/", "b", "/", "rest.config">> }
    /\ load.CONFIG_FILE = undefined

\* from /a/b, with a rest.config in /a and in /, the search gives /a/rest.config
C21_WitnessNearest ==
    /\ load.pc = "searched"
    /\ load.dirname = <<"/", "a", "/", "b">>
    /\ load.files = { <<"/", "rest.config">>, <<"/", "a", "/", "rest.config">> }
    /\ load.CONFIG_FILE = Some(<<"/", "a", "/", "rest.config">>)

\* the module has loaded and a configuration file was found / none was
Loaded == load.pc = "loaded"
ConfigFound == NearestDepth # -1

\* the name the configured service factory is required by: one starting
\* with "." is taken from the working directory
FactoryName ==
    IF load.config.serviceFactory.s[1] = "."
    THEN path_format(path_resolve(
            path_split(load.cwd, <<>>) \o path_split(load.config.serviceFactory.s, <<>>),
            <<>>))
    ELSE load.config.serviceFactory.s

\* C22: once the module has loaded, at most one of IoC and a service
\* factory is configured: with a configuration file that sets useIoC, IoC is
\* enabled and no factory is registered, whatever serviceFactory says; with
\* one that does not set useIoC and sets serviceFactory, that factory is
\* registered, its name resolved against the working directory when it
\* starts with '.', and IoC is not enabled; without configuration file
\* neither is done. (A setting is set when its value is truthy.)
C22_OneStrategy ==
    Loaded =>
        /\ ~(IsSome(load.useIoC) /\ IsSome(load.serviceFactory))
        /\ (ConfigFound /\ JsTruthy(load.config.useIoC))
              => /\ load.useIoC = Some(load.config.es6)
                 /\ load.serviceFactory = undefined
        /\ (ConfigFound /\ ~JsTruthy(load.config.useIoC)
                /\ JsTruthy(load.config.serviceFactory))
              => /\ load.useIoC = undefined
                 /\ load.serviceFactory = Some(FactoryName)
        /\ ~ConfigFound => load.useIoC = undefined /\ load.serviceFactory = undefined

\* a rest.config with useIoC true, es6 true and serviceFactory './factory',
\* found one directory above the module: IoC is enabled, no factory
C22_Witness ==
    /\ Loaded
    /\ load.dirname = <<"/", "a", "/", "b">>
    /\ load.CONFIG_FILE = Some(<<"/", "a", "/", "rest.config">>)
    /\ load.config = [useIoC |-> JsBoolean(TRUE), es6 |-> JsBoolean(TRUE),
                      serviceFactory |-> JsString(<<".", "/", "factory">>)]
    /\ load.useIoC = Some(JsBoolean(TRUE))
    /\ load.serviceFactory = undefined

\* serviceFactory '../factory' without useIoC, working directory /w/app:
\* the factory /w/factory is registered
C22_WitnessFactory ==
    /\ Loaded
    /\ load.cwd = <<"/", "w", "/", "app">>
    /\ load.config = [useIoC |-> JsUndefined, es6 |-> JsUndefined,
                      serviceFactory |-> JsString(<<".", ".", "/", "factory">>)]
    /\ load.useIoC = undefined
    /\ load.serviceFactory = Some(<<"/", "w", "/", "factory">>)

\* serviceFactory 'factory' with useIoC false: the module factory is registered
C22_WitnessModule ==
    /\ Loaded
    /\ load.config = [useIoC |-> JsBoolean(FALSE), es6 |-> JsUndefined,
                      serviceFactory |-> JsString(<<"factory">>)]
    /\ load.serviceFactory = Some(<<"factory">>)

\* no rest.config from /a/b up to the root: nothing is configured
C22_WitnessNoFile ==
    /\ Loaded
    /\ load.dirname = <<"/", "a", "/", "b">>
    /\ load.files = { <<"/", "b", "/", "rest.config">> }
    /\ load.config.useIoC = JsBoolean(TRUE)
    /\ load.useIoC = undefined
    /\ load.serviceFactory = undefined

====
